---------------------------- MODULE Spec2Model ----------------------------
(***************************************************************************)
(* Model of nyorain/nodes: the pattern language (src/src/pattern.rs), the  *)
(* note listing query (cli/util.rs iter_nodes), the interactive selection *)
(* screen (cli/select.rs SelectScreen) and the session around it           *)
(* (cli/select.rs select).                                                 *)
(*                                                                         *)
(* Strings are sequences of one-character strings.  The parser combinators *)
(* of the nom crate are modelled by what they do on a complete byte slice  *)
(* of the input: tag!, is_not!, take_until!, delimited!, preceded!,        *)
(* alt_complete!, complete! and separated_nonempty_list_complete!.  The    *)
(* end of the input ends a run of is_not!; a tag! that meets the end of    *)
(* the input is Incomplete, which complete! turns into an Error.           *)
(***************************************************************************)
EXTENDS Integers, Sequences, FiniteSets, TLC

VARIABLES
    input,      \* pattern text handed to parse_condition
    result,     \* what parse_condition returned for it ("none" before the call)
    db,         \* the storage backend: tables nodes and tags
    args,       \* util::ListArgs (SelectScreen.args in the browser)
    visited,    \* the notes iter_nodes handed to its callback, in order
    nodes,      \* SelectScreen.nodes: the rows of the browser
    hover,      \* SelectScreen.hover, 0-based index into nodes
    start,      \* SelectScreen.start, 0-based index of the first drawn row
    termy,      \* SelectScreen.termsize.1: the rows of the terminal
    status,     \* "running", "quit", or "panicked" once a handler has panicked
    state,      \* SelectScreen.state: "Normal", "Search", "Command", "Delete"
    pattern,    \* SelectScreen.pattern: the text of the search line
    command,    \* SelectScreen.command: the text of the command line
    delete_hover,   \* SelectScreen.delete_hover
    delete_sel,     \* SelectScreen.delete_sel
    action_count,   \* SelectScreen.action_count
    gpending,       \* SelectScreen.gpending
    dropped,    \* history: ids whose selection a reload dropped and that
                \* have not been selected again since
    keys,       \* the number of keys and terminal sizes handled so far
    main,       \* select(): where the main thread is
    sizet,      \* select(): where the resize thread is
    mutex,      \* the Mutex around the SelectScreen: its holder, and poisoned
    run_size,   \* the AtomicBool run_size
    termsize,   \* the variable termsize of the resize thread (its rows)
    winsize,    \* the rows of the terminal as terminal_size() reports them
    tty,        \* the terminal: raw mode, alternate screen, cursor, and what
                \* has been written since the cleanup sequence
    process     \* "running", "returned", "panicked" or "aborted"

parseVars == <<input, result>>
listVars == <<db, args, visited>>
modeVars ==
    <<state, pattern, command, delete_hover, delete_sel, action_count, gpending, dropped>>
screenVars == <<nodes, hover, start, termy, status, modeVars, keys>>
sessionVars == <<main, sizet, mutex, run_size, termsize, winsize, tty, process>>
vars == <<parseVars, listVars, screenVars, sessionVars>>

-----------------------------------------------------------------------------
(* Bounds *)

MaxPatLen == 5      \* longest pattern text over the operator alphabet
MaxTextLen == 2     \* longest text inside a delimited atom
MaxNodes == 3       \* most notes in a varied backend
MaxPlainNodes == 10 \* most notes in a backend of plain notes 1..n
MaxPriority == 1    \* priorities are 0..MaxPriority in an initial backend
MaxEdited == 1      \* edited timestamps are 0..MaxEdited in an initial backend
MaxCount == 3       \* largest count cap of a listing

-----------------------------------------------------------------------------
(* Condition AST: Node<CondNodeType>.  text is the String payload of the    *)
(* Match / ContentMatch / Tag / TagMatch variants, <<>> for Not / And / Or. *)

CondNode(type, text, children) ==
    [type |-> type, text |-> text, children |-> children]

NoNode == CondNode("none", <<>>, <<>>)

-----------------------------------------------------------------------------
(* nom results: Ok((rest, value)), Err(Error), Err(Incomplete) *)

Done(rest, value) == [kind |-> "Ok", rest |-> rest, value |-> value]
Error == [kind |-> "Error", rest |-> <<>>, value |-> NoNode]
Incomplete == [kind |-> "Incomplete", rest |-> <<>>, value |-> NoNode]

complete(r) == IF r.kind = "Incomplete" THEN Error ELSE r

\* index of the first element of i that is in set, 0 when there is none
position(set, i) ==
    IF \E k \in 1..Len(i) : i[k] \in set
    THEN CHOOSE k \in 1..Len(i) : i[k] \in set /\ \A j \in 1..(k-1) : i[j] \notin set
    ELSE 0

Drop(i, n) == SubSeq(i, n + 1, Len(i))
Take(i, n) == SubSeq(i, 1, n)

tag(t, i) ==
    IF Len(i) < 1 THEN Incomplete
    ELSE IF i[1] = t THEN Done(Drop(i, 1), <<t>>)
    ELSE Error

is_not(set, i) ==
    LET p == position(set, i) IN
    IF p = 1 THEN Error
    ELSE IF p > 1 THEN Done(Drop(i, p - 1), Take(i, p - 1))
    ELSE Done(<<>>, i)

take_until(t, i) ==
    LET p == position({t}, i) IN
    IF Len(i) < 1 THEN Incomplete
    ELSE IF p = 0 THEN Error
    ELSE Done(Drop(i, p - 1), Take(i, p - 1))

\* delimited!(tag!(open), is_not!(close), tag!(close))
delimited_is_not(open, close, i) ==
    LET a == tag(open, i) IN
    IF a.kind # "Ok" THEN a
    ELSE LET b == is_not({close}, a.rest) IN
         IF b.kind # "Ok" THEN b
         ELSE LET c == tag(close, b.rest) IN
              IF c.kind # "Ok" THEN c ELSE Done(c.rest, b.value)

\* preceded!(tag!(pre), delimited!(tag!(open), is_not!(close), tag!(close)))
preceded_delimited(pre, open, close, i) ==
    LET a == tag(pre, i) IN
    IF a.kind # "Ok" THEN a ELSE delimited_is_not(open, close, a.rest)

-----------------------------------------------------------------------------
(* The grammar of pattern.rs *)

Delimiters == {"|", "&", "(", ")", "[", "]", "<", ">", "/"}

value_string_unesc(i) == is_not(Delimiters, i)

value_string_esc(i) ==
    LET a == tag("\"", i) IN
    IF a.kind # "Ok" THEN a
    ELSE LET b == take_until("\"", a.rest) IN
         IF b.kind # "Ok" THEN b
         ELSE LET c == tag("\"", b.rest) IN
              IF c.kind # "Ok" THEN c ELSE Done(c.rest, b.value)

value_string(i) ==
    LET e == complete(value_string_esc(i)) IN
    IF e.kind = "Ok" THEN e ELSE complete(value_string_unesc(i))

Leaf(type, r) ==
    IF r.kind = "Ok" THEN Done(r.rest, CondNode(type, r.value, <<>>)) ELSE r

\* atom with the bare value tried before the prefixed forms
atom_bare_first(i) ==
    LET a6 == complete(Leaf("Match", value_string(i)))
        a1 == complete(Leaf("Tag", delimited_is_not("[", "]", i)))
        a2 == complete(Leaf("Tag", preceded_delimited("t", "(", ")", i)))
        a3 == complete(Leaf("TagMatch", delimited_is_not("<", ">", i)))
        a4 == complete(Leaf("TagMatch", preceded_delimited("t", "/", "/", i)))
        a5 == complete(Leaf("ContentMatch", preceded_delimited("c", "(", ")", i)))
    IN  IF a6.kind = "Ok" THEN a6
        ELSE IF a1.kind = "Ok" THEN a1
        ELSE IF a2.kind = "Ok" THEN a2
        ELSE IF a3.kind = "Ok" THEN a3
        ELSE IF a4.kind = "Ok" THEN a4
        ELSE a5

atom(i) ==
    LET a1 == complete(Leaf("Tag", delimited_is_not("[", "]", i)))
        a2 == complete(Leaf("Tag", preceded_delimited("t", "(", ")", i)))
        a3 == complete(Leaf("TagMatch", delimited_is_not("<", ">", i)))
        a4 == complete(Leaf("TagMatch", preceded_delimited("t", "/", "/", i)))
        a5 == complete(Leaf("ContentMatch", preceded_delimited("c", "(", ")", i)))
        a6 == complete(Leaf("Match", value_string(i)))
    IN  IF a1.kind = "Ok" THEN a1
        ELSE IF a2.kind = "Ok" THEN a2
        ELSE IF a3.kind = "Ok" THEN a3
        ELSE IF a4.kind = "Ok" THEN a4
        ELSE IF a5.kind = "Ok" THEN a5
        ELSE a6

(* expr, not, or and and call each other recursively, always on what an    *)
(* earlier parser left of the input, which is a proper suffix of their own *)
(* input.  The model evaluates them suffix by suffix, shortest first: rec  *)
(* holds, at index n + 1, the results of the four parsers on the suffix of *)
(* n characters, for every suffix shorter than the input i.                *)

Rec(rec, suffix) == rec[Len(suffix) + 1]

RECURSIVE SepLoop(_, _, _, _, _)
\* the loop of separated_nonempty_list_complete! after its first element:
\* cur is the input left, res the elements so far; the elements are parsed
\* by `not` (the list of or) or by `or` (the list of and)
SepLoop(sep, name, cur, res, rec) ==
    LET s == complete(tag(sep, cur)) IN
    IF s.kind # "Ok" THEN Done(cur, res)
    ELSE IF Len(s.rest) = Len(cur) THEN Done(cur, res)
    ELSE LET e == complete(IF name = "not" THEN Rec(rec, s.rest).not
                           ELSE Rec(rec, s.rest).or) IN
         IF e.kind # "Ok" THEN Done(cur, res)
         ELSE IF Len(e.rest) = Len(s.rest) THEN Done(cur, res)
         ELSE SepLoop(sep, name, e.rest, Append(res, e.value), rec)

\* first is the result of the element parser on the input i
separated_nonempty_list_complete(sep, name, first, i, rec) ==
    IF complete(first).kind # "Ok" THEN complete(first)
    ELSE IF Len(first.rest) = Len(i) THEN Error
    ELSE SepLoop(sep, name, first.rest, <<first.value>>, rec)

expr(i, rec) ==
    LET open == tag("(", i)
        inner == IF open.kind = "Ok" THEN Rec(rec, open.rest).and ELSE open
        close == IF inner.kind = "Ok" THEN tag(")", inner.rest) ELSE inner
        paren == complete(IF close.kind = "Ok"
                          THEN Done(close.rest, inner.value) ELSE close)
    IN  IF paren.kind = "Ok" THEN paren ELSE complete(atom(i))

\* not with `!` applied to a whole conjunction instead of one expr
not_wide(i, rec) ==
    LET bang == tag("!", i)
        e == IF bang.kind = "Ok" THEN Rec(rec, bang.rest).and ELSE bang
        neg == complete(IF e.kind = "Ok"
                        THEN Done(e.rest, CondNode("Not", <<>>, <<e.value>>))
                        ELSE e)
    IN  IF neg.kind = "Ok" THEN neg ELSE complete(expr(i, rec))

not(i, rec) ==
    LET bang == tag("!", i)
        e == IF bang.kind = "Ok" THEN Rec(rec, bang.rest).expr ELSE bang
        neg == complete(IF e.kind = "Ok"
                        THEN Done(e.rest, CondNode("Not", <<>>, <<e.value>>))
                        ELSE e)
    IN  IF neg.kind = "Ok" THEN neg ELSE complete(expr(i, rec))

\* map! closure that wraps one child in a node as well
Collapse_never(type, r) ==
    IF r.kind # "Ok" THEN r ELSE Done(r.rest, CondNode(type, <<>>, r.value))

\* map! closure of or / and: one child collapses to that child
Collapse(type, r) ==
    IF r.kind # "Ok" THEN r
    ELSE IF Len(r.value) = 1 THEN Done(r.rest, r.value[1])
    ELSE Done(r.rest, CondNode(type, <<>>, r.value))

or(i, rec) ==
    Collapse("Or", separated_nonempty_list_complete("|", "not", not(i, rec), i, rec))

and(i, rec) ==
    Collapse("And", separated_nonempty_list_complete("&", "or", or(i, rec), i, rec))

RECURSIVE Parsers(_)
\* the results of expr, not, or and and on every suffix of i, shortest first
Parsers(i) ==
    LET rec == IF i = <<>> THEN <<>> ELSE Parsers(Tail(i)) IN
    IF Len(rec) = Len(i)
    THEN Append(rec, [expr |-> expr(i, rec), not |-> not(i, rec),
                      or |-> or(i, rec), and |-> and(i, rec)])
    ELSE rec

ParseOk(value) == [ok |-> TRUE, value |-> value, err |-> "", ch |-> ""]
ParseErr(msg, c) == [ok |-> FALSE, value |-> NoNode, err |-> msg, ch |-> c]

\* parse_condition without the check of the unconsumed rest
parse_condition_prefix(text) ==
    LET res == Rec(Parsers(text), text).and IN
    IF res.kind # "Ok" THEN ParseErr("Invalid text", "") ELSE ParseOk(res.value)

parse_condition(text) ==
    LET res == Rec(Parsers(text), text).and IN
    IF res.kind # "Ok" THEN ParseErr("Invalid text", "")
    ELSE IF Len(res.rest) > 0 THEN ParseErr("Unexpected character", res.rest[1])
    ELSE ParseOk(res.value)

-----------------------------------------------------------------------------
(* Option<T>: None is <<>>, Some(x) is <<x>> *)

None == <<>>
Some(x) == <<x>>
IsSome(o) == Len(o) = 1
Unwrap(o) == o[1]

Min(a, b) == IF a < b THEN a ELSE b
Max(a, b) == IF a > b THEN a ELSE b
Range(f) == {f[k] : k \in DOMAIN f}

-----------------------------------------------------------------------------
(* tosql: the condition as the text of an SQL expression.  The model keeps *)
(* the expression as a tree whose leaves hold the text of the SQL string   *)
(* literal, quotes doubled, as pattern.rs writes it between '...'.         *)

RECURSIVE replace_quote(_)
\* string.replace("'", "''")
replace_quote(text) ==
    IF text = <<>> THEN <<>>
    ELSE IF Head(text) = "'" THEN <<"'", "'">> \o replace_quote(Tail(text))
    ELSE <<Head(text)>> \o replace_quote(Tail(text))

RECURSIVE tosql(_)
tosql(cond) ==
    IF cond.type \in {"Not", "And", "Or"}
    THEN [op |-> cond.type, lit |-> <<>>,
          sub |-> [k \in 1..Len(cond.children) |-> tosql(cond.children[k])]]
    ELSE IF cond.type = "Tag"
    THEN [op |-> "tag =", lit |-> replace_quote(cond.text), sub |-> <<>>]
    ELSE IF cond.type = "TagMatch"
    THEN [op |-> "tag LIKE",
          lit |-> <<"%">> \o replace_quote(cond.text) \o <<"%">>, sub |-> <<>>]
    ELSE IF cond.type = "ContentMatch"
    THEN [op |-> "content LIKE",
          lit |-> <<"%">> \o replace_quote(cond.text) \o <<"%">>, sub |-> <<>>]
    ELSE [op |-> "Or", lit |-> <<>>, sub |-> <<
            [op |-> "content LIKE",
             lit |-> <<"%">> \o replace_quote(cond.text) \o <<"%">>, sub |-> <<>>],
            [op |-> "tag LIKE",
             lit |-> <<"%">> \o replace_quote(cond.text) \o <<"%">>, sub |-> <<>>] >>]

-----------------------------------------------------------------------------
(* The backend's evaluation of the query text (SQLite).  NULL is the tag   *)
(* of the one joined row of a note without tags; a WHERE clause keeps a    *)
(* row only when it evaluates to true ("T"), not to false ("F") or NULL.   *)

NULL == <<"NULL">>

RECURSIVE SqlLiteral(_)
\* the value of the string literal written between quotes: '' reads as '
SqlLiteral(lit) ==
    IF lit = <<>> THEN <<>>
    ELSE IF Head(lit) = "'" /\ Len(lit) >= 2 /\ lit[2] = "'"
    THEN <<"'">> \o SqlLiteral(Tail(Tail(lit)))
    ELSE <<Head(lit)>> \o SqlLiteral(Tail(lit))

\* LIKE compares ASCII letters without regard to case
AsciiUpper == <<"A", "B", "C", "D", "E", "F", "G", "H", "I", "J", "K", "L", "M",
                "N", "O", "P", "Q", "R", "S", "T", "U", "V", "W", "X", "Y", "Z">>
AsciiLower == <<"a", "b", "c", "d", "e", "f", "g", "h", "i", "j", "k", "l", "m",
                "n", "o", "p", "q", "r", "s", "t", "u", "v", "w", "x", "y", "z">>
ascii_fold(ch) ==
    IF \E k \in DOMAIN AsciiUpper : AsciiUpper[k] = ch
    THEN AsciiLower[CHOOSE k \in DOMAIN AsciiUpper : AsciiUpper[k] = ch]
    ELSE ch

RECURSIVE Like(_, _)
\* text LIKE pat: % matches any run of characters, _ any one character
Like(text, pat) ==
    IF pat = <<>> THEN text = <<>>
    ELSE IF Head(pat) = "%"
    THEN Like(text, Tail(pat)) \/ (text # <<>> /\ Like(Tail(text), pat))
    ELSE /\ text # <<>>
         /\ (Head(pat) = "_" \/ ascii_fold(Head(pat)) = ascii_fold(Head(text)))
         /\ Like(Tail(text), Tail(pat))

Bool3(b) == IF b THEN "T" ELSE "F"

RECURSIVE SqlEval(_, _, _)
SqlEval(e, content, tagv) ==
    IF e.op = "Not"
    THEN LET v == SqlEval(e.sub[1], content, tagv) IN
         IF v = "T" THEN "F" ELSE IF v = "F" THEN "T" ELSE "N"
    ELSE IF e.op = "And"
    THEN LET vs == {SqlEval(e.sub[k], content, tagv) : k \in 1..Len(e.sub)} IN
         IF "F" \in vs THEN "F" ELSE IF "N" \in vs THEN "N" ELSE "T"
    ELSE IF e.op = "Or"
    THEN LET vs == {SqlEval(e.sub[k], content, tagv) : k \in 1..Len(e.sub)} IN
         IF "T" \in vs THEN "T" ELSE IF "N" \in vs THEN "N" ELSE "F"
    ELSE IF e.op = "content LIKE" THEN Bool3(Like(content, SqlLiteral(e.lit)))
    ELSE IF tagv = NULL THEN "N"
    ELSE IF e.op = "tag =" THEN Bool3(tagv = SqlLiteral(e.lit))
    ELSE Bool3(Like(tagv, SqlLiteral(e.lit)))

-----------------------------------------------------------------------------
(* The backend: db.nodes maps the ids of the stored notes to their row,    *)
(* db.tags is the tags table, a set of <<node, tag>>.                      *)

Ids(d) == DOMAIN d.nodes

TagsOf(d, id) == {r[2] : r \in {t \in d.tags : t[1] = id}}

\* FROM nodes LEFT JOIN tags ON nodes.id = tags.node
JoinRows(d) ==
    {r \in d.tags : r[1] \in Ids(d)}
    \cup {<<id, NULL>> : id \in {i \in Ids(d) : TagsOf(d, i) = {}}}

\* the WHERE clause of iter_nodes on one joined row
Where(d, a, row) ==
    /\ IsSome(a.archived) => d.nodes[row[1]].archived = Unwrap(a.archived)
    /\ IsSome(a.pattern) =>
         SqlEval(tosql(Unwrap(a.pattern)), d.nodes[row[1]].content, row[2]) = "T"

SortKey(d, sort, id) ==
    IF sort = "id" THEN id
    ELSE IF sort = "priority" THEN d.nodes[id].priority
    ELSE d.nodes[id].edited

Before(order, x, y) == IF order = "Asc" THEN x < y ELSE x > y

RECURSIVE Orderings(_, _, _, _)
\* ORDER BY sort order: every sequence of the ids in S in which no id comes
\* after one it is strictly before; rows with equal keys come in any order
Orderings(d, sort, order, S) ==
    IF S = {} THEN {<<>>}
    ELSE LET first == {m \in S : \A o \in S :
                          ~Before(order, SortKey(d, sort, o), SortKey(d, sort, m))}
         IN UNION {{<<m>> \o t : t \in Orderings(d, sort, order, S \ {m})} : m \in first}

\* LIMIT count
Limit(count, s) == IF IsSome(count) THEN Take(s, Min(Unwrap(count), Len(s))) ELSE s

\* the Node handed to the callback for the group of joined rows of one id:
\* GROUP_CONCAT(tag) joins the tags of the rows the WHERE clause kept
NodeOf(d, rows, id) ==
    [id |-> id, priority |-> d.nodes[id].priority, content |-> d.nodes[id].content,
     tags |-> {r[2] : r \in {w \in rows : w[1] = id}} \ {NULL}]

\* every sequence of notes that iter_nodes can visit for the backend d
iter_nodes(d, a) ==
    LET rows == {r \in JoinRows(d) : Where(d, a, r)}
        groups == {r[1] : r \in rows}
        capped == {Limit(a.count, s) : s \in Orderings(d, a.sort, a.preorder, groups)}
        final == IF a.preorder # a.postorder
                 THEN UNION {Orderings(d, a.sort, a.postorder, Range(s)) : s \in capped}
                 ELSE capped
    IN {[k \in 1..Len(s) |-> NodeOf(d, rows, s[k])] : s \in final}

\* the outer query orders by a column the inner SELECT does not return:
\* SQLite rejects "ORDER BY edited" there and prepare_cached(..).unwrap() panics
QueryFails(a) == a.sort = "edited" /\ a.preorder # a.postorder

-----------------------------------------------------------------------------
(* The cursor of the selection screen *)

cursor_off == 20

\* usize: the model keeps usize_BITS bits of the machine integer
usize_BITS == 8
usize_MAX == 2 ^ usize_BITS - 1

saturating_sub(a, b) == IF a > b THEN a - b ELSE 0
saturating_mul(a, b) == Min(a * b, usize_MAX)
saturating_add(a, b) == Min(a + b, usize_MAX)

\* correct_hover without the scroll at the bottom edge
correct_hover_no_bottom(len, h, s, ty) ==
    IF len = 0 THEN <<0, 0>>
    ELSE LET hv == Min(len - 1, h)
             topd == Min(Min(cursor_off, hv), ty \div 2)
             top == s + topd
             s1 == IF hv < top THEN saturating_sub(hv, topd) ELSE s
         IN <<hv, s1>>

\* correct_hover that keeps the hovered row in the viewport without a margin
correct_hover_no_margin(len, h, s, ty) ==
    IF len = 0 THEN <<0, 0>>
    ELSE LET hv == Min(len - 1, h)
             s1 == IF hv < s THEN hv ELSE s
             s2 == IF hv >= s1 + ty THEN saturating_sub(hv, ty - 1) ELSE s1
         IN <<hv, s2>>

\* correct_hover on a list of len rows: the new <<hover, start>>
correct_hover(len, h, s, ty) ==
    IF len = 0 THEN <<0, 0>>
    ELSE LET hv == Min(len - 1, h)
             topd == Min(Min(cursor_off, hv), ty \div 2)
             top == s + topd
             s1 == IF hv < top THEN saturating_sub(hv, topd) ELSE s
             botd == Min(Min(cursor_off, len - 1 - hv), (ty - 1) \div 2)
             bot == saturating_sub(s1 + ty, botd)
             s2 == IF hv >= bot THEN saturating_sub(hv + botd, ty - 1) ELSE s1
         IN <<hv, s2>>

\* self.hover += n overflows: a panic with overflow checks, else it wraps
cursor_down_overflows(h, n) == h + n > usize_MAX

\* cursor_down where the addition did not panic
cursor_down(len, h, s, ty, n) == correct_hover(len, (h + n) % (usize_MAX + 1), s, ty)

cursor_up(len, h, s, ty, n) == correct_hover(len, saturating_sub(h, n), s, ty)

SelectNode(id, priority, summary, selected, tags) ==
    [id |-> id, priority |-> priority, summary |-> summary,
     selected |-> selected, tags |-> tags]

-----------------------------------------------------------------------------
(* Idle values of the variables a specification does not use *)

NotParsed == [ok |-> FALSE, value |-> NoNode, err |-> "none", ch |-> ""]
NotListed == [done |-> FALSE, panicked |-> FALSE, rows |-> <<>>]
EmptyDb == [nodes |-> <<>>, tags |-> {}]
DefaultArgs ==
    [preorder |-> "Desc", postorder |-> "Desc", count |-> None,
     pattern |-> None, archived |-> Some(FALSE), sort |-> "id"]

ParseIdle == input = <<>> /\ result = NotParsed
ListIdle == db = EmptyDb /\ args = DefaultArgs /\ visited = NotListed
ModeIdle ==
    /\ state = "Normal" /\ pattern = <<>> /\ command = <<>>
    /\ delete_hover = FALSE /\ delete_sel = <<>>
    /\ action_count = 0 /\ gpending = FALSE /\ dropped = {}
ScreenIdle ==
    /\ nodes = <<>> /\ hover = 0 /\ start = 0 /\ termy = 1 /\ status = "running"
    /\ ModeIdle /\ keys = 0

\* the terminal before select() touched it, and after it was restored
Cooked == [raw |-> FALSE, alternate |-> FALSE, cursor |-> "shown",
           cleaned |-> FALSE, drawn_after_cleanup |-> FALSE]
Unlocked == [holder |-> "none", poisoned |-> FALSE]
SessionIdle ==
    /\ main = "start" /\ sizet = "unspawned" /\ mutex = Unlocked
    /\ run_size = TRUE /\ termsize = 1 /\ winsize = 1
    /\ tty = Cooked /\ process = "running"

-----------------------------------------------------------------------------
(* Specification of the parser: a pattern text is handed to parse_condition *)
(* once.  The texts are all strings over the operator alphabet up to        *)
(* MaxPatLen characters, and every atom form around every text over the     *)
(* text alphabet up to MaxTextLen characters.                               *)

OpAlphabet == {"a", "b", "c", "|", "&", "!", "(", ")"}
TextAlphabet == {"a", " ", "t", "|", "(", ")", "]", ">", "/", "\""}
AtomForms ==
    {<< <<"[">>, <<"]">> >>, << <<"t", "(">>, <<")">> >>, << <<"<">>, <<">">> >>,
     << <<"t", "/">>, <<"/">> >>, << <<"c", "(">>, <<")">> >>, << <<"\"">>, <<"\"">> >>}

RECURSIVE StringsUpTo(_, _)
StringsUpTo(alphabet, n) ==
    IF n = 0 THEN {<<>>}
    ELSE LET shorter == StringsUpTo(alphabet, n - 1) IN
         shorter \cup {Append(s, ch) : s \in {t \in shorter : Len(t) = n - 1},
                                       ch \in alphabet}

AtomInputs ==
    {f[1] \o text \o f[2] : f \in AtomForms, text \in StringsUpTo(TextAlphabet, MaxTextLen)}

\* texts with spaces and slashes between bare atoms and operators
SpacedAlphabet == {"a", " ", "&", "/"}

ParseInit ==
    /\ input \in StringsUpTo(OpAlphabet, MaxPatLen) \cup AtomInputs
                \cup StringsUpTo(SpacedAlphabet, MaxPatLen)
    /\ result = NotParsed
    /\ ListIdle /\ ScreenIdle /\ SessionIdle

Parse ==
    /\ result = NotParsed
    /\ result' = parse_condition(input)
    /\ UNCHANGED <<input, listVars, screenVars, sessionVars>>

ParseNext == Parse

SpecParse == ParseInit /\ [][ParseNext]_vars

-----------------------------------------------------------------------------
(* Specification of the listing: iter_nodes runs once on a backend and     *)
(* list arguments drawn from bounded sets.                                 *)

Orders == {"Asc", "Desc"}
Sorts == {"id", "priority", "edited"}

NoteText(id) == <<"a">>

\* notes 1..n, no two with the same priority or the same edited time
PlainDbs ==
    {[nodes |-> [id \in 1..n |-> [content |-> NoteText(id), priority |-> 0 - id,
                                  archived |-> FALSE, edited |-> id]],
      tags |-> {}] : n \in 0..MaxPlainNodes}

\* notes 1..n, n up to max, with any priority, archived flag and edited time
VariedDbs(max) ==
    UNION {{[nodes |-> [id \in 1..n |-> [content |-> NoteText(id), priority |-> pr[id],
                                         archived |-> ar[id], edited |-> ed[id]]],
             tags |-> {}] :
              pr \in [1..n -> 0..MaxPriority], ar \in [1..n -> BOOLEAN],
              ed \in [1..n -> 0..MaxEdited]} : n \in 0..max}

ListInit ==
    /\ db \in PlainDbs \cup VariedDbs(MaxNodes)
    /\ args \in [preorder : Orders, postorder : Orders,
                 count : {None} \cup {Some(c) : c \in 0..MaxCount},
                 pattern : {None},
                 archived : {None, Some(FALSE), Some(TRUE)},
                 sort : Sorts]
    /\ visited = NotListed
    /\ ParseIdle /\ ScreenIdle /\ SessionIdle

\* iter_nodes returns after visiting the rows of the query
List ==
    /\ ~visited.done
    /\ ~QueryFails(args)
    /\ \E rows \in iter_nodes(db, args) :
         visited' = [done |-> TRUE, panicked |-> FALSE, rows |-> rows]
    /\ UNCHANGED <<db, args, parseVars, screenVars, sessionVars>>

\* the backend rejects the query and iter_nodes panics in unwrap
ListPanic ==
    /\ ~visited.done
    /\ QueryFails(args)
    /\ visited' = [done |-> TRUE, panicked |-> TRUE, rows |-> <<>>]
    /\ UNCHANGED <<db, args, parseVars, screenVars, sessionVars>>

ListNext == List \/ ListPanic

SpecList == ListInit /\ [][ListNext]_vars

-----------------------------------------------------------------------------
(* Specification of the filtered listing: the select command hands its     *)
(* command line to extract_list_args and the list arguments to iter_nodes, *)
(* on a backend whose notes carry tags and contents drawn from small sets. *)

MaxTagged == 2      \* notes of a backend with tags
DefaultNum == 999999    \* default_value of the num argument of the select command

\* extract_list_args: m is the command line as clap matched it
extract_list_args(m, reverse, reverse_display) ==
    LET parsed == IF IsSome(m.pattern) THEN parse_condition(Unwrap(m.pattern))
                  ELSE NotParsed
    IN [preorder |-> IF reverse # m.reverse THEN "Desc" ELSE "Asc",
        postorder |-> IF reverse_display # m.reverse_display THEN "Desc" ELSE "Asc",
        count |-> m.num,
        pattern |-> IF parsed.ok THEN Some(parsed.value) ELSE None,
        archived |-> IF m.only_archived THEN Some(TRUE)
                     ELSE IF m.archived THEN None ELSE Some(FALSE),
        sort |-> IF IsSome(m.sort) THEN Unwrap(m.sort) ELSE "id"]

\* nodes select [pattern] [-r]: num has the default value
Matches(pat, rev) ==
    [pattern |-> pat, reverse |-> rev, reverse_display |-> FALSE,
     num |-> Some(DefaultNum), only_archived |-> FALSE, archived |-> FALSE,
     sort |-> None]

\* the pattern argument: absent, or one of these texts
PatternArgs ==
    {None} \cup {Some(t) : t \in
        {<<"!", "t", "(", "t", ")">>,
         <<"t", "(", "t", ")", "&", "t", "(", "u", ")">>,
         <<"t", "(", "t", ")">>,
         <<"c", "(", "a", ")">>, <<"c", "(", "%", ")">>, <<"c", "(", "_", ")">>,
         <<"c", "(", "'", ")">>, <<"c", "(", "a", "'", ")">>,
         <<"(", "a">>, <<"a", "&">>, <<>>}}

FilterTags == {<<"t">>, <<"u">>}
FilterContents ==
    {<<"a">>, <<"A">>, <<"b">>, <<"%">>, <<"_">>, <<"'">>, <<"a", "'">>, <<"b", "a">>}

\* notes 1..n, n up to max, each with any content and any set of tags
TaggedDbs(max) ==
    UNION {{[nodes |-> [id \in 1..n |-> [content |-> co[id], priority |-> 0,
                                         archived |-> FALSE, edited |-> id]],
             tags |-> UNION {{<<id, t>> : t \in tg[id]} : id \in 1..n}] :
              co \in [1..n -> FilterContents],
              tg \in [1..n -> SUBSET FilterTags]} : n \in 0..max}

FilterInit ==
    /\ input \in PatternArgs
    /\ \E rev \in BOOLEAN : args = extract_list_args(Matches(input, rev), TRUE, TRUE)
    /\ result = NotParsed
    /\ db \in TaggedDbs(MaxTagged)
    /\ visited = NotListed
    /\ ScreenIdle /\ SessionIdle

FilterNext == List

SpecFilter == FilterInit /\ [][FilterNext]_vars

-----------------------------------------------------------------------------

(* Specification of the cursor: cursor_down and cursor_up, any number of   *)
(* times, on a list and a terminal height that do not change.              *)

MaxLen == 5         \* a short list has 1..MaxLen rows
LongLen == 46       \* rows of the long list (more than twice cursor_off)
MaxTermY == 4       \* a low terminal has 1..MaxTermY rows
TallTermY == 43     \* rows of the tall terminal (more than twice cursor_off)
MaxStep == 3        \* a cursor move is by 1..MaxStep rows, or by LongLen

PlainNodes(n) == [k \in 1..n |-> SelectNode(k, 0, NoteText(k), FALSE, {})]

CursorInit ==
    /\ nodes \in {PlainNodes(n) : n \in (1..MaxLen) \cup {LongLen}}
    /\ termy \in (1..MaxTermY) \cup {TallTermY}
    /\ hover = 0 /\ start = 0 /\ status = "running"
    /\ ParseIdle /\ ListIdle /\ ModeIdle /\ keys = 0 /\ SessionIdle

CursorDown ==
    \E n \in (1..MaxStep) \cup {LongLen} :
        /\ hover' = cursor_down(Len(nodes), hover, start, termy, n)[1]
        /\ start' = cursor_down(Len(nodes), hover, start, termy, n)[2]
        /\ UNCHANGED <<nodes, termy, status, modeVars, keys, parseVars, listVars,
                       sessionVars>>

CursorUp ==
    \E n \in (1..MaxStep) \cup {LongLen} :
        /\ hover' = cursor_up(Len(nodes), hover, start, termy, n)[1]
        /\ start' = cursor_up(Len(nodes), hover, start, termy, n)[2]
        /\ UNCHANGED <<nodes, termy, status, modeVars, keys, parseVars, listVars,
                       sessionVars>>

CursorNext == CursorDown \/ CursorUp

SpecCursor == CursorInit /\ [][CursorNext]_vars

-----------------------------------------------------------------------------
(* The write operations of the backend (cli/util.rs) and the editor.  The  *)
(* tables keep one row per note id and one row per pair of note and tag.   *)

MaxTime == 4        \* edit and create stop when the clock would pass MaxTime

\* a vector as the set of its elements
Set(v) == {v[k] : k \in 1..Len(v)}

toggle_archived(d, id) ==
    [d EXCEPT !.nodes = [i \in Ids(d) |->
        IF i = id THEN [d.nodes[i] EXCEPT !.archived = ~@] ELSE d.nodes[i]]]

\* WHERE id IN (ids): SQLite accepts the empty list and updates nothing
toggle_archived_range(d, ids) ==
    [d EXCEPT !.nodes = [i \in Ids(d) |->
        IF i \in Set(ids) THEN [d.nodes[i] EXCEPT !.archived = ~@] ELSE d.nodes[i]]]

\* delete_range that deletes the first id only
delete_range_first(d, ids) ==
    IF Len(ids) = 0 THEN d
    ELSE [d EXCEPT !.nodes = [i \in Ids(d) \ {ids[1]} |-> d.nodes[i]]]

\* the rows of the tags table are left behind
delete_range(d, ids) ==
    IF Len(ids) = 0 THEN d
    ELSE [d EXCEPT !.nodes = [i \in Ids(d) \ Set(ids) |-> d.nodes[i]]]

priority_add(d, ids, offset) ==
    [d EXCEPT !.nodes = [i \in Ids(d) |->
        IF i \in Set(ids) THEN [d.nodes[i] EXCEPT !.priority = @ + offset]
        ELSE d.nodes[i]]]

\* without ids the text "INSERT INTO tags(node, tag) VALUES " is no
\* statement: execute returns Err
add_tags_fails(ids, tags) == Len(ids) = 0 \/ Len(tags) = 0

add_tags(d, ids, tags) ==
    [d EXCEPT !.tags = @ \cup {<<i, t>> : i \in Set(ids), t \in Set(tags)}]

remove_tags(d, ids, tags) ==
    [d EXCEPT !.tags = @ \ {<<i, t>> : i \in Set(ids), t \in Set(tags)}]

\* CURRENT_TIMESTAMP: later than the edited time of every stored note
Now(d) ==
    IF Ids(d) = {} THEN 1
    ELSE 1 + CHOOSE m \in {d.nodes[i].edited : i \in Ids(d)} :
                 \A i \in Ids(d) : d.nodes[i].edited <= m

\* the editor leaves the content as it is; edited is set to the time
edit(d, id) ==
    [d EXCEPT !.nodes = [i \in Ids(d) |->
        IF i = id THEN [d.nodes[i] EXCEPT !.edited = Now(d)] ELSE d.nodes[i]]]

\* the rowid of an inserted note: one more than the largest stored id
NextId(d) == IF Ids(d) = {} THEN 1 ELSE 1 + CHOOSE m \in Ids(d) : \A i \in Ids(d) : i <= m

\* create with the content the editor left; empty content is Err(EmptyNode)
create(d, content) ==
    IF content = <<>> THEN d
    ELSE [d EXCEPT !.nodes = [i \in Ids(d) \cup {NextId(d)} |->
            IF i \in Ids(d) THEN d.nodes[i]
            ELSE [content |-> content, priority |-> 0, archived |-> FALSE,
                  edited |-> Now(d)]]]

-----------------------------------------------------------------------------
(* SelectScreen: the pure parts of its methods *)

RowIds(ns) == {ns[k].id : k \in 1..Len(ns)}
IsSelected(n) == n.selected
IsUnselected(n) == ~n.selected

\* the ids of the selected rows, in the order of the rows
Selected(ns) ==
    LET sel == SelectSeq(ns, IsSelected) IN [k \in 1..Len(sel) |-> sel[k].id]

\* content.lines().next().unwrap_or(""): the text before the first line end
first_line(content) ==
    IF position({"\n"}, content) = 0 THEN content
    ELSE Take(content, position({"\n"}, content) - 1)

\* reload_nodes that leaves every row unselected
reload_nodes_unselected(ns, d, a) ==
    {[k \in 1..Len(r) |->
        SelectNode(r[k].id, r[k].priority, first_line(r[k].content), FALSE, r[k].tags)] :
     r \in iter_nodes(d, a)}

\* the values reload_nodes can leave in nodes, one for every order in which
\* the backend can return rows with equal sort keys
reload_nodes(ns, d, a) ==
    {[k \in 1..Len(r) |->
        SelectNode(r[k].id, r[k].priority, first_line(r[k].content),
                   r[k].id \in Set(Selected(ns)), r[k].tags)] : r \in iter_nodes(d, a)}

\* reparse_pattern that drops the filter whatever the search line holds
reparse_pattern_clears(pat, a) == <<None, TRUE>>

\* reparse_pattern that never touches the filter
reparse_pattern_keep(pat, a) == <<a.pattern, FALSE>>

\* reparse_pattern: <<the new args.pattern, the returned bool>>
reparse_pattern(pat, a) ==
    IF pat = <<>> THEN <<None, IsSome(a.pattern)>>
    ELSE CHOOSE r \in {IF p.ok THEN <<Some(p.value), TRUE>> ELSE <<a.pattern, FALSE>> :
                        p \in {parse_condition(pat)}} : TRUE

\* render_nf slices nodes[start..], which panics when start is past the end
render_panics(ns, s) == s > Len(ns)

clear_selection(ns) == [k \in 1..Len(ns) |-> [ns[k] EXCEPT !.selected = FALSE]]

\* selection_or_hover indexes nodes[hover] when nothing is selected
selection_or_hover_panics(ns, h) ==
    Selected(ns) = <<>> /\ ns # <<>> /\ h >= Len(ns)

\* selection_or_hover that flags the selection as the hovered row
selection_or_hover_flagged(ns, h) ==
    IF Selected(ns) = <<>> /\ ns # <<>> THEN <<<<ns[h + 1].id>>, TRUE>>
    ELSE <<Selected(ns), TRUE>>

selection_or_hover(ns, h) ==
    IF Selected(ns) = <<>> /\ ns # <<>> THEN <<<<ns[h + 1].id>>, TRUE>>
    ELSE <<Selected(ns), FALSE>>

\* Vec::remove(index)
remove(ns, index) == SubSeq(ns, 1, index) \o SubSeq(ns, index + 2, Len(ns))

\* nodes.retain(|node| !node.selected)
retain_unselected(ns) == SelectSeq(ns, IsUnselected)

\* archive that never removes a row from nodes
archive_keep(ns, h, d, a) ==
    LET sel == selection_or_hover(ns, h) IN
    IF sel[2] THEN [db |-> toggle_archived(d, sel[1][1]), nodes |-> ns]
    ELSE [db |-> toggle_archived_range(d, sel[1]), nodes |-> ns]

\* archive: the backend and the rows it leaves
archive(ns, h, d, a) ==
    LET sel == selection_or_hover(ns, h) IN
    IF sel[2]
    THEN [db |-> toggle_archived(d, sel[1][1]),
          nodes |-> IF IsSome(a.archived) THEN remove(ns, h) ELSE ns]
    ELSE [db |-> toggle_archived_range(d, sel[1]),
          nodes |-> IF IsSome(a.archived) THEN retain_unselected(ns) ELSE ns]

next_sort_mode(a) ==
    [a EXCEPT !.sort = IF @ = "id" THEN "edited"
                       ELSE IF @ = "edited" THEN "priority" ELSE "id"]

\* set_hover_to_id that leaves the cursor on its row
set_hover_to_id_stays(ns, h, s, ty, id) == correct_hover(Len(ns), h, s, ty)

\* set_hover_to_id: the new <<hover, start>>
set_hover_to_id(ns, h, s, ty, id) ==
    LET at == {k \in 1..Len(ns) : ns[k].id = id}
        hv == IF at = {} THEN h ELSE (CHOOSE k \in at : \A o \in at : k <= o) - 1
    IN correct_hover(Len(ns), hv, s, ty)

RECURSIVE split(_, _)
\* command.split(|c| c == ',' || c == ' '): cur is the piece being read
split(s, cur) ==
    IF s = <<>> THEN <<cur>>
    ELSE IF Head(s) \in {",", " "} THEN <<cur>> \o split(Tail(s), <<>>)
    ELSE split(Tail(s), Append(cur, Head(s)))

\* exec_cmd whose command a leaves every view for the other one
exec_cmd_a_toggles(cmd, ns, h, d, a) ==
    IF cmd[1] \in {<<"t">>, <<"t", "a", "g">>} /\ Len(cmd) > 1
    THEN IF selection_or_hover_panics(ns, h)
         THEN [panic |-> TRUE, db |-> d, args |-> a, reload |-> FALSE]
         ELSE IF add_tags_fails(selection_or_hover(ns, h)[1], Tail(cmd))
         THEN [panic |-> TRUE, db |-> d, args |-> a, reload |-> FALSE]
         ELSE [panic |-> FALSE, args |-> a, reload |-> TRUE,
               db |-> add_tags(d, selection_or_hover(ns, h)[1], Tail(cmd))]
    ELSE IF cmd[1] \in {<<"u", "t">>, <<"u", "n", "t", "a", "g">>} /\ Len(cmd) > 1
    THEN IF selection_or_hover_panics(ns, h)
         THEN [panic |-> TRUE, db |-> d, args |-> a, reload |-> FALSE]
         ELSE [panic |-> FALSE, args |-> a, reload |-> TRUE,
               db |-> remove_tags(d, selection_or_hover(ns, h)[1], Tail(cmd))]
    ELSE IF cmd[1] = <<"a">>
    THEN [panic |-> FALSE, db |-> d, reload |-> TRUE,
          args |-> [a EXCEPT !.archived = IF @ = None THEN Some(FALSE) ELSE None]]
    ELSE IF cmd[1] = <<"A">>
    THEN [panic |-> FALSE, db |-> d, reload |-> TRUE,
          args |-> [a EXCEPT !.archived = IF @ = Some(TRUE) THEN Some(FALSE)
                                          ELSE Some(TRUE)]]
    ELSE [panic |-> FALSE, db |-> d, args |-> a, reload |-> FALSE]

\* exec_cmd on the pieces of the command line: whether it panics, the
\* backend and the args it leaves, and whether it reloads
exec_cmd(cmd, ns, h, d, a) ==
    IF cmd[1] \in {<<"t">>, <<"t", "a", "g">>} /\ Len(cmd) > 1
    THEN IF selection_or_hover_panics(ns, h)
         THEN [panic |-> TRUE, db |-> d, args |-> a, reload |-> FALSE]
         ELSE IF add_tags_fails(selection_or_hover(ns, h)[1], Tail(cmd))
         THEN [panic |-> TRUE, db |-> d, args |-> a, reload |-> FALSE]
         ELSE [panic |-> FALSE, args |-> a, reload |-> TRUE,
               db |-> add_tags(d, selection_or_hover(ns, h)[1], Tail(cmd))]
    ELSE IF cmd[1] \in {<<"u", "t">>, <<"u", "n", "t", "a", "g">>} /\ Len(cmd) > 1
    THEN IF selection_or_hover_panics(ns, h)
         THEN [panic |-> TRUE, db |-> d, args |-> a, reload |-> FALSE]
         ELSE [panic |-> FALSE, args |-> a, reload |-> TRUE,
               db |-> remove_tags(d, selection_or_hover(ns, h)[1], Tail(cmd))]
    ELSE IF cmd[1] = <<"a">>
    THEN [panic |-> FALSE, db |-> d, reload |-> TRUE,
          args |-> [a EXCEPT !.archived = IF @ = None THEN Some(FALSE)
                                          ELSE IF @ = Some(FALSE) THEN None ELSE @]]
    ELSE IF cmd[1] = <<"A">>
    THEN [panic |-> FALSE, db |-> d, reload |-> TRUE,
          args |-> [a EXCEPT !.archived = IF @ = Some(TRUE) THEN Some(FALSE)
                                          ELSE Some(TRUE)]]
    ELSE [panic |-> FALSE, db |-> d, args |-> a, reload |-> FALSE]

-----------------------------------------------------------------------------
(* Specification of the selection screen: SelectScreen::new on a backend   *)
(* of fresh notes, then the keys select() hands to input() and the sizes   *)
(* the resize thread hands to resized(), in any order.  A handler that     *)
(* panics leaves status = "panicked" and nothing runs after it.            *)

MaxRows == 2            \* the terminal has 1..MaxRows rows
MaxSearchLen == 2       \* longest text typed on the search line
MaxActionCount == 2     \* largest count typed before a key
MaxKeys == 6            \* keys and terminal sizes handled in one run

TermSizes == 1..MaxRows
Digits == {2}
SearchChars == {"x", "("}
SearchKeys == {"Esc", "Enter", "Backspace", "Other"} \cup SearchChars
CmdChars == {"t", "u", "a", "A", " ", "x"}
\* the lines typed on the command line
CommandLines ==
    {<<"t", " ", "x">>, <<"u", "t", " ", "x">>, <<"a">>, <<"A">>, <<"x">>,
     <<"t">>, <<"u", "t">>}
Prefixes(lines) == UNION {{Take(l, n) : n \in 0..Len(l)} : l \in lines}

FreshDb(n) ==
    [nodes |-> [id \in 1..n |-> [content |-> NoteText(id), priority |-> 0,
                                 archived |-> FALSE, edited |-> id]],
     tags |-> {}]

\* the pattern arguments of the select command: none, or the pattern x
\* (parse_condition("x") is Match(x)), which no fresh note matches
CliPatterns == {None, Some(CondNode("Match", <<"x">>, <<>>))}

\* extract_list_args(&args, true, true): preorder is Asc with the flag -r
SelectArgs(pre, pat) ==
    [preorder |-> pre, postorder |-> "Desc", count |-> Some(DefaultNum),
     pattern |-> pat, archived |-> Some(FALSE), sort |-> "id"]

Init ==
    /\ \E n \in 0..MaxNodes : db = FreshDb(n)
    /\ \E pre \in Orders, pat \in CliPatterns : args = SelectArgs(pre, pat)
    /\ nodes \in reload_nodes(<<>>, db, args)
    /\ termy \in TermSizes
    /\ hover = 0 /\ start = 0 /\ status = "running"
    /\ ModeIdle /\ keys = 0
    /\ ParseIdle /\ visited = NotListed /\ SessionIdle

\* input() or resized() is entered: the screen is running
Running == status = "running" /\ keys < MaxKeys /\ keys' = keys + 1
quiet == <<parseVars, visited, sessionVars>>
modeRest == <<state, pattern, command, delete_hover, delete_sel>>

\* render() after the handler left ns, h, s in nodes, hover, start
Render(ns, h, s) ==
    /\ nodes' = ns /\ hover' = h /\ start' = s
    /\ status' = IF render_panics(ns, s) THEN "panicked" ELSE "running"

\* the handler panics before it changes the rows
Crash == status' = "panicked" /\ UNCHANGED <<nodes, hover, start>>

\* reload_nodes on the backend d with the args a, then render
Reloaded(d, a, h, s) ==
    IF QueryFails(a) THEN Crash /\ dropped' = dropped
    ELSE \E ns \in reload_nodes(nodes, d, a) :
            /\ Render(ns, h, s)
            /\ dropped' = dropped \cup (Set(Selected(nodes)) \ RowIds(ns))

\* the end of input_normal: reset_acount, reset_gpending
Counts(ac, gp) == action_count' = ac /\ gpending' = gp

input_normal_quit ==        \* q
    /\ Running /\ state = "Normal"
    /\ status' = "quit"
    /\ UNCHANGED <<db, args, nodes, hover, start, termy, modeVars, quiet>>

input_normal_down ==        \* j, Down
    /\ Running /\ state = "Normal"
    /\ LET n == Max(action_count, 1)
           c == cursor_down(Len(nodes), hover, start, termy, n)
       IN \/ Render(nodes, c[1], c[2]) /\ Counts(0, FALSE)
          \/ cursor_down_overflows(hover, n) /\ Crash /\ Counts(action_count, gpending)
    /\ UNCHANGED <<db, args, termy, modeRest, dropped, quiet>>

input_normal_up ==          \* k, Up
    /\ Running /\ state = "Normal"
    /\ LET c == cursor_up(Len(nodes), hover, start, termy, Max(action_count, 1))
       IN Render(nodes, c[1], c[2])
    /\ Counts(0, FALSE)
    /\ UNCHANGED <<db, args, termy, modeRest, dropped, quiet>>

input_normal_end ==         \* G, End: nodes.len() - 1 underflows on no rows
    /\ Running /\ state = "Normal"
    /\ IF nodes = <<>> THEN Crash
       ELSE Render(nodes, Len(nodes) - 1, saturating_sub(Len(nodes) - 1, termy - 1))
    /\ Counts(0, FALSE)
    /\ UNCHANGED <<db, args, termy, modeRest, dropped, quiet>>

input_normal_home ==        \* Home
    /\ Running /\ state = "Normal"
    /\ Render(nodes, 0, 0)
    /\ Counts(0, FALSE)
    /\ UNCHANGED <<db, args, termy, modeRest, dropped, quiet>>

\* a g that jumps without a pending g
input_normal_g_always ==
    /\ Running /\ state = "Normal"
    /\ Render(nodes, 0, 0) /\ Counts(0, FALSE)
    /\ UNCHANGED <<db, args, termy, modeRest, dropped, quiet>>

input_normal_g ==           \* g
    /\ Running /\ state = "Normal"
    /\ IF gpending THEN Render(nodes, 0, 0) /\ Counts(0, FALSE)
       ELSE UNCHANGED <<nodes, hover, start, status>> /\ Counts(0, TRUE)
    /\ UNCHANGED <<db, args, termy, modeRest, dropped, quiet>>

input_normal_space ==       \* Space
    /\ Running /\ state = "Normal"
    /\ IF nodes = <<>> THEN UNCHANGED <<nodes, hover, start, status, dropped>>
       ELSE IF hover >= Len(nodes) THEN Crash /\ dropped' = dropped
       ELSE /\ Render([nodes EXCEPT ![hover + 1].selected = ~@], hover, start)
            /\ dropped' = dropped \ {nodes[hover + 1].id}
    /\ Counts(0, FALSE)
    /\ UNCHANGED <<db, args, termy, modeRest, quiet>>

input_normal_edit ==        \* e, Enter
    /\ Running /\ state = "Normal"
    /\ IF nodes = <<>> THEN UNCHANGED <<db, nodes, hover, start, status, dropped>>
       ELSE IF hover >= Len(nodes) THEN Crash /\ UNCHANGED <<db, dropped>>
       ELSE /\ Now(db) <= MaxTime
            /\ db' = edit(db, nodes[hover + 1].id)
            /\ Reloaded(db', args, hover, start)
    /\ Counts(0, FALSE)
    /\ UNCHANGED <<args, termy, modeRest, quiet>>

input_normal_create ==      \* c
    /\ Running /\ state = "Normal"
    /\ \E content \in {<<>>, NoteText(NextId(db))} :
        /\ content # <<>> => (NextId(db) <= MaxNodes /\ Now(db) <= MaxTime)
        /\ db' = create(db, content)
        /\ Reloaded(db', args, hover, start)
    /\ Counts(0, FALSE)
    /\ UNCHANGED <<args, termy, modeRest, quiet>>

\* a digit key that starts the count again
digit_key_replaces(digit) ==
    /\ Running /\ state = "Normal"
    /\ Counts(digit, FALSE)
    /\ UNCHANGED <<db, args, nodes, hover, start, termy, status, modeRest, dropped, quiet>>

\* a digit key: action_count.saturating_mul(10).saturating_add(digit)
digit_key(digit) ==
    /\ Running /\ state = "Normal"
    /\ Counts(saturating_add(saturating_mul(action_count, 10), digit), FALSE)
    /\ UNCHANGED <<db, args, nodes, hover, start, termy, status, modeRest, dropped, quiet>>

input_normal_digit ==       \* the digits typed in the browser specification
    \E digit \in Digits : action_count * 10 + digit <= MaxActionCount /\ digit_key(digit)

input_normal_archive ==     \* a
    /\ Running /\ state = "Normal"
    /\ IF selection_or_hover_panics(nodes, hover) THEN Crash /\ db' = db
       ELSE /\ db' = archive(nodes, hover, db, args).db
            /\ Render(archive(nodes, hover, db, args).nodes, hover, start)
    /\ Counts(0, FALSE)
    /\ UNCHANGED <<args, termy, modeRest, dropped, quiet>>

input_normal_reload ==      \* r
    /\ Running /\ state = "Normal"
    /\ termy' \in TermSizes
    /\ Reloaded(db, args, hover, start)
    /\ Counts(0, FALSE)
    /\ UNCHANGED <<db, args, modeRest, quiet>>

input_normal_clear ==       \* s
    /\ Running /\ state = "Normal"
    /\ Render(clear_selection(nodes), hover, start)
    /\ Counts(0, FALSE)
    /\ UNCHANGED <<db, args, termy, modeRest, dropped, quiet>>

input_normal_delete ==      \* d, Delete
    /\ Running /\ state = "Normal"
    /\ IF selection_or_hover_panics(nodes, hover)
       THEN Crash /\ UNCHANGED <<delete_sel, delete_hover, state>>
       ELSE /\ IF selection_or_hover(nodes, hover)[1] # <<>>
               THEN /\ delete_sel' = selection_or_hover(nodes, hover)[1]
                    /\ delete_hover' = selection_or_hover(nodes, hover)[2]
                    /\ state' = "Delete"
               ELSE UNCHANGED <<delete_sel, delete_hover, state>>
            /\ Render(nodes, hover, start)
    /\ Counts(0, FALSE)
    /\ UNCHANGED <<db, args, termy, pattern, command, dropped, quiet>>

input_normal_search ==      \* /
    /\ Running /\ state = "Normal"
    /\ state' = "Search"
    /\ Render(nodes, hover, start)
    /\ Counts(0, FALSE)
    /\ UNCHANGED <<db, args, termy, pattern, command, delete_hover, delete_sel,
                   dropped, quiet>>

input_normal_colon ==       \* :
    /\ Running /\ state = "Normal"
    /\ state' = "Command"
    /\ Render(nodes, hover, start)
    /\ Counts(0, FALSE)
    /\ UNCHANGED <<db, args, termy, pattern, command, delete_hover, delete_sel,
                   dropped, quiet>>

input_normal_sort ==        \* Ctrl-o
    /\ Running /\ state = "Normal"
    /\ args' = next_sort_mode(args)
    /\ Reloaded(db, args', hover, start)
    /\ Counts(0, FALSE)
    /\ UNCHANGED <<db, termy, modeRest, quiet>>

\* J (offset -1) and K (offset 1)
priority_key(offset) ==
    /\ Running /\ state = "Normal"
    /\ IF hover >= Len(nodes) THEN Crash /\ UNCHANGED <<db, dropped>>
       ELSE /\ db' = priority_add(db, selection_or_hover(nodes, hover)[1], offset)
            /\ \A i \in Ids(db') :
                  db'.nodes[i].priority \in (0 - MaxPriority)..MaxPriority
            /\ IF QueryFails(args) THEN Crash /\ dropped' = dropped
               ELSE \E ns \in reload_nodes(nodes, db', args) :
                     /\ Render(ns,
                          set_hover_to_id(ns, hover, start, termy, nodes[hover + 1].id)[1],
                          set_hover_to_id(ns, hover, start, termy, nodes[hover + 1].id)[2])
                     /\ dropped' = dropped \cup (Set(Selected(nodes)) \ RowIds(ns))
    /\ Counts(0, FALSE)
    /\ UNCHANGED <<args, termy, modeRest, quiet>>

input_normal_J == priority_key(-1)

input_normal_K == priority_key(1)

input_normal_other ==       \* any other key
    /\ Running /\ state = "Normal"
    /\ Counts(0, FALSE)
    /\ UNCHANGED <<db, args, nodes, hover, start, termy, status, modeRest, dropped, quiet>>

\* input_search on one key: Esc also stands for Ctrl-c and Ctrl-d, "Other"
\* for every key that is no character
input_search_key(key) ==
    /\ Running /\ state = "Search"
    /\ key \in SearchChars => Len(pattern) < MaxSearchLen
    /\ LET end == key \in {"Esc", "Enter"} \/ (key = "Backspace" /\ pattern = <<>>)
           changed == \/ key \in {"Esc"} \cup SearchChars
                      \/ (key = "Backspace" /\ pattern # <<>>)
           pat == IF key = "Esc" THEN <<>>
                  ELSE IF key = "Backspace" THEN Take(pattern, Max(Len(pattern), 1) - 1)
                  ELSE IF key \in SearchChars THEN Append(pattern, key)
                  ELSE pattern
       IN /\ pattern' = pat
          /\ \E r \in {IF changed THEN reparse_pattern(pat, args)
                        ELSE <<args.pattern, FALSE>>} :
                /\ args' = [args EXCEPT !.pattern = r[1]]
                /\ IF r[2] THEN Reloaded(db, args', 0, 0)
                   ELSE IF changed \/ end
                   THEN Render(nodes, hover, start) /\ dropped' = dropped
                   ELSE UNCHANGED <<nodes, hover, start, status, dropped>>
          /\ state' = IF end THEN "Normal" ELSE state
    /\ UNCHANGED <<db, termy, command, delete_hover, delete_sel, action_count,
                   gpending, quiet>>

input_search == \E key \in SearchKeys : input_search_key(key)

\* Esc on the command line ends the session
input_cmd_cancel_quits ==
    /\ Running /\ state = "Command"
    /\ command' = <<>>
    /\ state' = "Normal"
    /\ status' = "quit"
    /\ UNCHANGED <<db, args, nodes, hover, start, termy, pattern, delete_hover,
                   delete_sel, action_count, gpending, dropped, quiet>>

input_cmd_cancel ==         \* Esc, Ctrl-c, Ctrl-d
    /\ Running /\ state = "Command"
    /\ command' = <<>>
    /\ state' = "Normal"
    /\ Render(nodes, hover, start)
    /\ UNCHANGED <<db, args, termy, pattern, delete_hover, delete_sel, action_count,
                   gpending, dropped, quiet>>

\* Enter that leaves the line in the command buffer
input_cmd_enter_keeps_line ==
    /\ Running /\ state = "Command"
    /\ command \in CommandLines \cup {<<>>}
    /\ LET r == exec_cmd(split(command, <<>>), nodes, hover, db, args) IN
       /\ db' = r.db
       /\ args' = r.args
       /\ IF r.panic THEN Crash /\ dropped' = dropped
          ELSE IF r.reload THEN Reloaded(db', args', hover, start)
          ELSE Render(nodes, hover, start) /\ dropped' = dropped
    /\ command' = command
    /\ state' = "Normal"
    /\ UNCHANGED <<termy, pattern, delete_hover, delete_sel, action_count, gpending,
                   quiet>>

input_cmd_enter ==          \* Enter
    /\ Running /\ state = "Command"
    /\ command \in CommandLines \cup {<<>>}
    /\ LET r == exec_cmd(split(command, <<>>), nodes, hover, db, args) IN
       /\ db' = r.db
       /\ args' = r.args
       /\ IF r.panic THEN Crash /\ dropped' = dropped
          ELSE IF r.reload THEN Reloaded(db', args', hover, start)
          ELSE Render(nodes, hover, start) /\ dropped' = dropped
    /\ command' = <<>>
    /\ state' = "Normal"
    /\ UNCHANGED <<termy, pattern, delete_hover, delete_sel, action_count, gpending,
                   quiet>>

input_cmd_backspace ==      \* Backspace
    /\ Running /\ state = "Command"
    /\ IF command = <<>> THEN state' = "Normal" /\ command' = command
       ELSE command' = Take(command, Len(command) - 1) /\ state' = state
    /\ Render(nodes, hover, start)
    /\ UNCHANGED <<db, args, termy, pattern, delete_hover, delete_sel, action_count,
                   gpending, dropped, quiet>>

input_cmd_char ==           \* any character
    /\ Running /\ state = "Command"
    /\ \E c \in CmdChars :
        /\ Append(command, c) \in Prefixes(CommandLines)
        /\ command' = Append(command, c)
    /\ Render(nodes, hover, start)
    /\ UNCHANGED <<db, args, termy, state, pattern, delete_hover, delete_sel,
                   action_count, gpending, dropped, quiet>>

input_cmd_other ==          \* any key that is no character
    /\ Running /\ state = "Command"
    /\ UNCHANGED <<db, args, nodes, hover, start, termy, status, modeVars, quiet>>

input_delete_no ==          \* n, N, Esc, Ctrl-d, Ctrl-c
    /\ Running /\ state = "Delete"
    /\ state' = "Normal"
    /\ Render(nodes, hover, start)
    /\ UNCHANGED <<db, args, termy, pattern, command, delete_hover, delete_sel,
                   action_count, gpending, dropped, quiet>>

input_delete_yes ==         \* y, Y
    /\ Running /\ state = "Delete"
    /\ db' = delete_range(db, delete_sel)
    /\ IF delete_hover /\ hover >= Len(nodes) THEN Crash
       ELSE Render(IF delete_hover THEN remove(nodes, hover)
                   ELSE retain_unselected(nodes), hover, start)
    /\ state' = "Normal"
    /\ UNCHANGED <<args, termy, pattern, command, delete_hover, delete_sel,
                   action_count, gpending, dropped, quiet>>

input_delete_other ==       \* any other key
    /\ Running /\ state = "Delete"
    /\ Render(nodes, hover, start)
    /\ UNCHANGED <<db, args, termy, modeVars, quiet>>

\* the resize thread saw a new terminal size
resized ==
    /\ Running
    /\ \E ty \in TermSizes \ {termy} : termy' = ty
    /\ Render(nodes, hover, start)
    /\ UNCHANGED <<db, args, modeVars, quiet>>

Next ==
    \/ input_normal_quit \/ input_normal_down \/ input_normal_up
    \/ input_normal_end \/ input_normal_home \/ input_normal_g
    \/ input_normal_space \/ input_normal_edit \/ input_normal_create
    \/ input_normal_digit \/ input_normal_archive \/ input_normal_reload
    \/ input_normal_clear \/ input_normal_delete \/ input_normal_search
    \/ input_normal_colon \/ input_normal_sort \/ input_normal_J
    \/ input_normal_K \/ input_normal_other
    \/ input_search
    \/ input_cmd_cancel \/ input_cmd_enter \/ input_cmd_backspace \/ input_cmd_char
    \/ input_cmd_other
    \/ input_delete_no \/ input_delete_yes \/ input_delete_other
    \/ resized

Spec == Init /\ [][Next]_vars

-----------------------------------------------------------------------------
(* Specification of the numeric prefix: the keys of Normal mode that move  *)
(* the cursor, with every digit, on a list that does not change.           *)

\* the rows reload_nodes shows for FreshDb(n): the newest note first
DescNodes(n) == [k \in 1..n |-> SelectNode(n + 1 - k, 0, NoteText(n + 1 - k), FALSE, {})]

PrefixInit ==
    /\ \E n \in (0..MaxLen) \cup {LongLen} : db = FreshDb(n) /\ nodes = DescNodes(n)
    /\ args = SelectArgs("Desc", None)
    /\ termy \in TermSizes
    /\ hover = 0 /\ start = 0 /\ status = "running"
    /\ ModeIdle /\ keys = 0
    /\ ParseIdle /\ visited = NotListed /\ SessionIdle

input_normal_digits ==      \* 0 .. 9
    \E digit \in 0..9 : digit_key(digit)

PrefixNext ==
    \/ input_normal_digits \/ input_normal_down \/ input_normal_up
    \/ input_normal_end \/ input_normal_home \/ input_normal_g
    \/ input_normal_other

SpecPrefix == PrefixInit /\ [][PrefixNext]_vars

-----------------------------------------------------------------------------

(* Specification of the session: select() from the terminal setup to its   *)
(* return, with the thread that polls the terminal size.  input() is taken *)
(* by its three outcomes (it returns true, it returns false, it panics:    *)
(* all three are reached in the specification of the selection screen);    *)
(* SelectScreen::new is taken to succeed.  The build unwinds on a panic    *)
(* (no profile sets panic = "abort"): the MutexGuard dropped by a          *)
(* panicking thread poisons the mutex, and a panic raised while the thread *)
(* is already unwinding aborts the process.                                *)

sessionRest == <<parseVars, listVars, nodes, hover, start, modeVars, keys>>

\* Mutex::lock that does not wait for the holder
lock_unguarded(t) == mutex' = [mutex EXCEPT !.holder = t]

\* Mutex::lock by the thread t on a mutex that is not poisoned
lock(t) == mutex.holder = "none" /\ mutex' = [mutex EXCEPT !.holder = t]

\* drop of the MutexGuard: it poisons the mutex when its thread is panicking
unlock(panicking) ==
    mutex' = [holder |-> "none", poisoned |-> mutex.poisoned \/ panicking]

SessionInit ==
    /\ main = "start" /\ sizet = "unspawned" /\ mutex = Unlocked
    /\ run_size = TRUE /\ termsize = 1 /\ winsize \in TermSizes
    /\ tty = Cooked /\ process = "running"
    /\ ParseIdle /\ ListIdle /\ ScreenIdle

\* get_tty().and_then(into_raw_mode): on Err select returns -2
select_raw_mode ==
    /\ process = "running" /\ main = "start"
    /\ \E ok \in BOOLEAN :
        IF ok THEN /\ tty' = [tty EXCEPT !.raw = TRUE]
                   /\ main' = "screen" /\ process' = process
        ELSE /\ main' = "returned" /\ process' = "returned" /\ tty' = tty
    /\ UNCHANGED <<sizet, mutex, run_size, termsize, winsize, termy, status, sessionRest>>

\* AlternateScreen::from, BufWriter, write of cursor::Hide: on Err select
\* returns -3 and the drop of screen leaves the alternate screen and raw mode
select_screen ==
    /\ process = "running" /\ main = "screen"
    /\ \E ok \in BOOLEAN :
        IF ok THEN /\ tty' = [tty EXCEPT !.alternate = TRUE]
                   /\ main' = "new" /\ process' = process
        ELSE /\ tty' = Cooked
             /\ main' = "returned" /\ process' = "returned"
    /\ UNCHANGED <<sizet, mutex, run_size, termsize, winsize, termy, status, sessionRest>>

\* SelectScreen::new (its render flushes the hidden cursor), Arc, Mutex,
\* run_size
select_new ==
    /\ process = "running" /\ main = "new"
    /\ termy' = winsize /\ status' = "running"
    /\ tty' = [tty EXCEPT !.cursor = "hidden"]
    /\ mutex' = Unlocked /\ run_size' = TRUE
    /\ main' = "spawn"
    /\ UNCHANGED <<sizet, termsize, winsize, process, sessionRest>>

\* thread::spawn of the resize thread; defer! arms the cleanup
select_spawn ==
    /\ process = "running" /\ main = "spawn"
    /\ sizet' = "start"
    /\ main' = "keys"
    /\ UNCHANGED <<mutex, run_size, termsize, winsize, tty, process, termy, status,
                   sessionRest>>

\* for c in keys, c.unwrap(): a key, the end of the input, or a read error
select_next_key ==
    /\ process = "running" /\ main = "keys"
    /\ \E c \in {"key", "end", "err"} :
        main' = IF c = "key" THEN "lock" ELSE IF c = "end" THEN "store" ELSE "unwind"
    /\ UNCHANGED <<sizet, mutex, run_size, termsize, winsize, tty, process, termy,
                   status, sessionRest>>

\* let mut s = ms.lock().unwrap()
select_lock ==
    /\ process = "running" /\ main = "lock"
    /\ IF mutex.poisoned
       THEN mutex.holder = "none" /\ main' = "unwind" /\ mutex' = mutex
       ELSE lock("main") /\ main' = "input"
    /\ UNCHANGED <<sizet, run_size, termsize, winsize, tty, process, termy, status,
                   sessionRest>>

\* s.input(c, conn) and the drop of s: true goes on, false breaks, a panic
\* unwinds
select_input ==
    /\ process = "running" /\ main = "input"
    /\ \E r \in {"true", "false", "panic"} :
        /\ unlock(r = "panic")
        /\ status' = IF r = "true" THEN status ELSE IF r = "false" THEN "quit"
                     ELSE "panicked"
        /\ main' = IF r = "true" THEN "keys" ELSE IF r = "false" THEN "store"
                   ELSE "unwind"
    /\ UNCHANGED <<sizet, run_size, termsize, winsize, tty, process, termy, sessionRest>>

\* input() on the keys e, Enter and c, with the lock released before the
\* editor starts
select_edit_unlocked ==
    /\ process = "running" /\ main = "input"
    /\ unlock(FALSE)
    /\ main' = "editor"
    /\ UNCHANGED <<sizet, run_size, termsize, winsize, tty, process, termy, status,
                   sessionRest>>

\* input() on the keys e, Enter and c: ToMainScreen is written into the
\* BufWriter, then util::edit or util::create starts the external editor
\* and waits for it; s, the guard of the key loop, stays alive
select_edit ==
    /\ process = "running" /\ main = "input"
    /\ main' = "editor"
    /\ UNCHANGED <<sizet, mutex, run_size, termsize, winsize, tty, process, termy,
                   status, sessionRest>>

\* the editor has ended: ToAlternateScreen, clear::All and cursor::Hide are
\* written, reload_nodes and render run, input returns true and s is
\* dropped; the unwrap of util::edit, the reload or the render may panic
select_editor_exit ==
    /\ process = "running" /\ main = "editor"
    /\ \E r \in {"true", "panic"} :
        /\ unlock(r = "panic")
        /\ status' = IF r = "true" THEN status ELSE "panicked"
        /\ main' = IF r = "true" THEN "keys" ELSE "unwind"
    /\ UNCHANGED <<sizet, run_size, termsize, winsize, tty, process, termy, sessionRest>>

\* run_size.store(false)
select_store ==
    /\ process = "running" /\ main = "store"
    /\ run_size' = FALSE
    /\ main' = "join"
    /\ UNCHANGED <<sizet, mutex, termsize, winsize, tty, process, termy, status,
                   sessionRest>>

\* sizet.join() that does not wait for the thread
select_join_nowait ==
    /\ process = "running" /\ main = "join"
    /\ main' = "clone"
    /\ UNCHANGED <<sizet, mutex, run_size, termsize, winsize, tty, process, termy,
                   status, sessionRest>>

\* sizet.join().unwrap()
select_join ==
    /\ process = "running" /\ main = "join"
    /\ sizet \in {"finished", "panicked"}
    /\ main' = IF sizet = "panicked" THEN "unwind" ELSE "clone"
    /\ UNCHANGED <<sizet, mutex, run_size, termsize, winsize, tty, process, termy,
                   status, sessionRest>>

\* nodes = ms.lock().unwrap().nodes.clone()
select_clone ==
    /\ process = "running" /\ main = "clone"
    /\ mutex.holder = "none"
    /\ main' = IF mutex.poisoned THEN "unwind" ELSE "defer"
    /\ UNCHANGED <<sizet, mutex, run_size, termsize, winsize, tty, process, termy,
                   status, sessionRest>>

\* the scope ends, or is unwound: the deferred block runs ms.lock().unwrap();
\* on a poisoned mutex it panics, which aborts a thread that is unwinding
select_defer_lock ==
    /\ process = "running" /\ main \in {"defer", "unwind"}
    /\ IF mutex.poisoned
       THEN /\ mutex.holder = "none" /\ mutex' = mutex
            /\ IF main = "unwind" THEN main' = "aborted" /\ process' = "aborted"
               ELSE main' = "drop_unwind" /\ process' = process
       ELSE /\ lock("main") /\ process' = process
            /\ main' = IF main = "defer" THEN "cleanup" ELSE "cleanup_unwind"
    /\ UNCHANGED <<sizet, run_size, termsize, winsize, tty, termy, status, sessionRest>>

\* the deferred block writes clear::All, Goto(1, 1), cursor::Show and
\* ToMainScreen, flushes, and drops its guard
select_cleanup ==
    /\ process = "running" /\ main \in {"cleanup", "cleanup_unwind"}
    /\ tty' = [tty EXCEPT !.cursor = "shown", !.alternate = FALSE, !.cleaned = TRUE]
    /\ unlock(FALSE)
    /\ main' = IF main = "cleanup" THEN "drop" ELSE "drop_unwind"
    /\ UNCHANGED <<sizet, run_size, termsize, winsize, process, termy, status,
                   sessionRest>>

\* ms is dropped: the SelectScreen, and with it the alternate screen and
\* the raw mode, is dropped only when the resize thread no longer holds
\* its clone of the Arc.  Then select returns 0, or the panic ends the
\* process.
select_drop ==
    /\ process = "running" /\ main \in {"drop", "drop_unwind"}
    /\ tty' = IF sizet \in {"finished", "panicked"}
              THEN [tty EXCEPT !.raw = FALSE, !.alternate = FALSE] ELSE tty
    /\ main' = IF main = "drop" THEN "returned" ELSE "panicked"
    /\ process' = IF main = "drop" THEN "returned" ELSE "panicked"
    /\ UNCHANGED <<sizet, mutex, run_size, termsize, winsize, termy, status,
                   sessionRest>>

\* the resize thread: let mut termsize = util::terminal_size()
sizet_start ==
    /\ process = "running" /\ sizet = "start"
    /\ termsize' = winsize
    /\ sizet' = "load"
    /\ UNCHANGED <<main, mutex, run_size, winsize, tty, process, termy, status,
                   sessionRest>>

\* while true: the loop of the resize thread without its stop flag
sizet_load_forever ==
    /\ process = "running" /\ sizet = "load"
    /\ sizet' = "poll"
    /\ UNCHANGED <<main, mutex, run_size, termsize, winsize, tty, process, termy,
                   status, sessionRest>>

\* while trun_size.load(SeqCst)
sizet_load ==
    /\ process = "running" /\ sizet = "load"
    /\ sizet' = IF run_size THEN "poll" ELSE "finished"
    /\ UNCHANGED <<main, mutex, run_size, termsize, winsize, tty, process, termy,
                   status, sessionRest>>

\* let ntermsize = util::terminal_size(); if ntermsize != termsize
sizet_poll ==
    /\ process = "running" /\ sizet = "poll"
    /\ termsize' = winsize
    /\ sizet' = IF winsize # termsize THEN "lock" ELSE "sleep"
    /\ UNCHANGED <<main, mutex, run_size, winsize, tty, process, termy, status,
                   sessionRest>>

\* let mut s = tms.lock().unwrap()
sizet_lock ==
    /\ process = "running" /\ sizet = "lock"
    /\ IF mutex.poisoned
       THEN mutex.holder = "none" /\ sizet' = "panicked" /\ mutex' = mutex
       ELSE lock("sizet") /\ sizet' = "resized"
    /\ UNCHANGED <<main, run_size, termsize, winsize, tty, process, termy, status,
                   sessionRest>>

\* s.resized(termsize), which renders, and the drop of s
sizet_resized ==
    /\ process = "running" /\ sizet = "resized"
    /\ termy' = termsize
    /\ tty' = [tty EXCEPT !.drawn_after_cleanup = @ \/ tty.cleaned]
    /\ unlock(FALSE)
    /\ sizet' = "sleep"
    /\ UNCHANGED <<main, run_size, termsize, winsize, process, status, sessionRest>>

\* thread::sleep(Duration::from_millis(50))
sizet_sleep ==
    /\ process = "running" /\ sizet = "sleep"
    /\ sizet' = "load"
    /\ UNCHANGED <<main, mutex, run_size, termsize, winsize, tty, process, termy,
                   status, sessionRest>>

\* the user resizes the terminal
window_change ==
    /\ process = "running"
    /\ \E rows \in TermSizes \ {winsize} : winsize' = rows
    /\ UNCHANGED <<main, sizet, mutex, run_size, termsize, tty, process, termy, status,
                   sessionRest>>

SessionNext ==
    \/ select_raw_mode \/ select_screen \/ select_new \/ select_spawn
    \/ select_next_key \/ select_lock \/ select_input
    \/ select_edit \/ select_editor_exit
    \/ select_store \/ select_join \/ select_clone
    \/ select_defer_lock \/ select_cleanup \/ select_drop
    \/ sizet_start \/ sizet_load \/ sizet_poll \/ sizet_lock \/ sizet_resized
    \/ sizet_sleep \/ window_change

SpecSession == SessionInit /\ [][SessionNext]_vars

\* The steps select() takes by itself.  The next key (select_next_key) and
\* the end of the external editor (select_edit, select_editor_exit) wait
\* for the user and are not among them.
select_step ==
    \/ select_raw_mode \/ select_screen \/ select_new \/ select_spawn
    \/ select_lock \/ select_input
    \/ select_store \/ select_join \/ select_clone
    \/ select_defer_lock \/ select_cleanup \/ select_drop

\* The steps of the resize thread
sizet_step ==
    \/ sizet_start \/ sizet_load \/ sizet_poll \/ sizet_lock \/ sizet_resized
    \/ sizet_sleep

\* The session with its two threads scheduled: a thread whose next step
\* stays possible takes it (a lock that stays free is acquired, a sleep of
\* 50 ms ends, a join of a finished thread returns).
SpecSessionFair == SpecSession /\ WF_vars(select_step) /\ WF_vars(sizet_step)

-----------------------------------------------------------------------------
(* Claims about the parser, checked under SpecParse *)

BareAtoms == {"a", "b", "c"}
Match(x) == CondNode("Match", <<x>>, <<>>)
Parsed == result # NotParsed

\* C1: `&` binds tighter than `|`: for bare atoms x, y, z the text "x|y&z"
\* parses to Or(Match(x), And(Match(y), Match(z))).
C1_AndBindsTighter ==
    (/\ Parsed /\ Len(input) = 5 /\ input[2] = "|" /\ input[4] = "&"
     /\ {input[1], input[3], input[5]} \subseteq BareAtoms)
    => result = ParseOk(CondNode("Or", <<>>,
                 <<Match(input[1]),
                   CondNode("And", <<>>, <<Match(input[3]), Match(input[5])>>)>>))

RECURSIVE Depths(_, _)
\* the nesting depth after each character of s, starting from depth d
Depths(s, d) ==
    IF s = <<>> THEN <<d>>
    ELSE <<d>> \o Depths(Tail(s), IF Head(s) = "(" THEN d + 1
                                  ELSE IF Head(s) = ")" THEN d - 1 ELSE d)

\* every ")" closes an earlier "(" and every "(" is closed
Balanced(s) ==
    LET ds == Depths(s, 0) IN
    /\ \A k \in 1..Len(ds) : ds[k] >= 0
    /\ ds[Len(ds)] = 0

\* texts in which every parenthesis is a grouping parenthesis: no prefix
\* t or c, no delimited atom
GroupAlphabet == {"a", "b", "|", "&", "!", "(", ")"}

\* what the top rule `and` of the grammar returns for the input
Grammar == Rec(Parsers(input), input).and

\* C2: unbalanced input is rejected: "(x" and "x)" return an error; an input
\* of which the grammar consumes only a prefix returns an error, not the tree
\* of the prefix; an input with an unmatched grouping parenthesis returns an
\* error.
C2_UnbalancedRejected ==
    Parsed =>
        /\ input \in {<<"(", x>> : x \in BareAtoms} \cup {<<x, ")">> : x \in BareAtoms}
              => ~result.ok
        /\ (Grammar.kind = "Ok" /\ Grammar.rest # <<>>) => ~result.ok
        /\ (Range(input) \subseteq GroupAlphabet /\ ~Balanced(input)) => ~result.ok

C2_Witness ==
    /\ input = <<"a", ")">>
    /\ result = ParseErr("Unexpected character", ")")

\* the text between the delimiters open and close when input is open text close
Inner(open, close) == SubSeq(input, Len(open) + 1, Len(input) - Len(close))

HasForm(open, close) ==
    /\ Len(input) >= Len(open) + Len(close)
    /\ SubSeq(input, 1, Len(open)) = open
    /\ SubSeq(input, Len(input) - Len(close) + 1, Len(input)) = close
    /\ close[1] \notin Range(Inner(open, close))

FormYields(open, close, type) ==
    (Parsed /\ HasForm(open, close))
    => result = ParseOk(CondNode(type, Inner(open, close), <<>>))

\* C3 as amended: for every non-empty text without the closing delimiter,
\* "[text]" and "t(text)" parse to Tag(text), "<text>" and "t/text/" to
\* TagMatch(text), "c(text)" to ContentMatch(text); a double-quoted string,
\* empty or not, parses to Match of the text between the quotes.
C3_AtomForms ==
    /\ Len(input) > 2 => FormYields(<<"[">>, <<"]">>, "Tag")
    /\ Len(input) > 3 => FormYields(<<"t", "(">>, <<")">>, "Tag")
    /\ Len(input) > 2 => FormYields(<<"<">>, <<">">>, "TagMatch")
    /\ Len(input) > 3 => FormYields(<<"t", "/">>, <<"/">>, "TagMatch")
    /\ Len(input) > 3 => FormYields(<<"c", "(">>, <<")">>, "ContentMatch")
    /\ FormYields(<<"\"">>, <<"\"">>, "Match")

\* C3 as stated: the same for every text without the closing delimiter, the
\* empty text included.
C3_AtomFormsAnyText ==
    /\ FormYields(<<"[">>, <<"]">>, "Tag")
    /\ FormYields(<<"t", "(">>, <<")">>, "Tag")
    /\ FormYields(<<"<">>, <<">">>, "TagMatch")
    /\ FormYields(<<"t", "/">>, <<"/">>, "TagMatch")
    /\ FormYields(<<"c", "(">>, <<")">>, "ContentMatch")
    /\ FormYields(<<"\"">>, <<"\"">>, "Match")

C3_Witness ==
    /\ input = <<"t", "(", "a", " ", ")">>
    /\ result = ParseOk(CondNode("Tag", <<"a", " ">>, <<>>))

\* C4: `!` binds tighter than `&`: for bare atoms x, y the text "!x&y" parses
\* to And(Not(Match(x)), Match(y)).
C4_NegationScope ==
    (/\ Parsed /\ Len(input) = 4 /\ input[1] = "!" /\ input[3] = "&"
     /\ {input[2], input[4]} \subseteq BareAtoms)
    => result = ParseOk(CondNode("And", <<>>,
                 <<CondNode("Not", <<>>, <<Match(input[2])>>), Match(input[4])>>))

C4_Witness ==
    /\ input = <<"!", "a", "&", "b">>
    /\ result.ok /\ result.value.type = "And"

\* the operators and parentheses of the grammar
TokenChars == {"&", "|", "!", "(", ")"}

Strip(text) == SelectSeq(text, LAMBDA ch : ch # " ")

\* text is made of bare atoms, tokens and spaces, each space next to a token
SpacesAroundTokens(text) ==
    /\ " " \in Range(text)
    /\ Range(text) \subseteq BareAtoms \cup TokenChars \cup {" "}
    /\ \A i \in 1..Len(text) :
         text[i] = " " => \/ (i > 1 /\ text[i - 1] \in TokenChars)
                          \/ (i < Len(text) /\ text[i + 1] \in TokenChars)

\* C25: whitespace between tokens is insignificant: a text whose spaces all
\* stand next to an operator or a parenthesis parses to the tree of the text
\* without the spaces when that text is a valid pattern: "a & b" parses to
\* And(Match(a), Match(b)) as "a&b" does.
C25_WhitespaceInsignificant ==
    (Parsed /\ SpacesAroundTokens(input))
        => LET stripped == parse_condition(Strip(input)) IN
           stripped.ok => result = stripped

\* the delimiters of a bare atom
BareDelimiters == {"|", "&", "(", ")", "[", "]", "<", ">"}

\* a non-empty text without delimiters that is not negated, quoted or "t/"
BareRun(text) ==
    /\ text # <<>>
    /\ Range(text) \cap BareDelimiters = {}
    /\ Head(text) \notin {"!", "\""}
    /\ ~(Len(text) >= 2 /\ text[1] = "t" /\ text[2] = "/")

\* C26: bare atom: a non-empty text without any of the delimiters
\* | & ( ) [ ] < > that is not a prefixed form parses to one Match of the
\* whole text; a text containing a slash parses successfully.
C26_BareAtom ==
    (Parsed /\ BareRun(input)) => result = ParseOk(CondNode("Match", input, <<>>))

RECURSIVE WellShaped(_)
\* Not has one child, And and Or have two or more, an atom has none
WellShaped(node) ==
    /\ node.type \in {"Not", "And", "Or", "Match", "ContentMatch", "Tag", "TagMatch"}
    /\ node.type = "Not" => Len(node.children) = 1
    /\ node.type \in {"And", "Or"} => Len(node.children) >= 2
    /\ node.type \in {"Match", "ContentMatch", "Tag", "TagMatch"} => node.children = <<>>
    /\ \A k \in 1..Len(node.children) : WellShaped(node.children[k])

\* C35: shape of parsed trees: in every tree parse_condition returns, each
\* Not node has exactly one child, each And and Or node has at least two
\* children and each atom node has no children.
C35_TreeShape == (Parsed /\ result.ok) => WellShaped(result.value)

\* a parenthesized single atom next to an operator: no unary And or Or
C35_Witness ==
    /\ input = <<"(", "a", ")", "|", "b">>
    /\ result.ok /\ result.value.type = "Or" /\ Len(result.value.children) = 2

-----------------------------------------------------------------------------
(* Claims about the listing, checked under SpecList *)

VisitedIds == [k \in 1..Len(visited.rows) |-> visited.rows[k].id]

\* the notes the archived filter of args lets through (no pattern is set)
Matching ==
    {id \in Ids(db) : IsSome(args.archived) => db.nodes[id].archived = Unwrap(args.archived)}

Cap == IF IsSome(args.count) THEN Min(Unwrap(args.count), Cardinality(Matching))
       ELSE Cardinality(Matching)

\* C5: two-phase ordering: the listing returns, and the notes visited are
\* the first count matching notes in the order preorder of the sort key,
\* delivered in the order postorder; preorder Desc, postorder Asc, count 3
\* over ids 1..10 sorted by id visits 8, 9, 10.
C5_TwoPhaseOrdering ==
    visited.done =>
        /\ ~visited.panicked
        /\ Len(VisitedIds) = Cap
        /\ Cardinality(Range(VisitedIds)) = Cap
        /\ Range(VisitedIds) \subseteq Matching
        /\ \A x \in Range(VisitedIds), y \in Matching \ Range(VisitedIds) :
              ~Before(args.preorder, SortKey(db, args.sort, y), SortKey(db, args.sort, x))
        /\ \A i, j \in 1..Len(VisitedIds) :
              i < j => ~Before(args.postorder, SortKey(db, args.sort, VisitedIds[j]),
                                               SortKey(db, args.sort, VisitedIds[i]))
        /\ (/\ Ids(db) = 1..10 /\ args.sort = "id" /\ args.count = Some(3)
            /\ args.archived # Some(TRUE)
            /\ args.preorder = "Desc" /\ args.postorder = "Asc")
              => VisitedIds = <<8, 9, 10>>

\* the same for the sort keys the outer query can order by
C5_IdAndPriorityOnly == args.sort # "edited" => C5_TwoPhaseOrdering

-----------------------------------------------------------------------------
(* Claims about the cursor, checked under SpecCursor *)

\* C6: after any sequence of cursor_down and cursor_up from hover = start = 0
\* on a non-empty list, 0 <= start <= hover < len(nodes) and the hovered row
\* is inside the drawn slice: hover - start < termy.
C6_CursorInViewport ==
    (status = "running" /\ nodes # <<>>) =>
        /\ 0 <= start /\ start <= hover /\ hover < Len(nodes)
        /\ hover - start < termy

C6_Witness ==
    /\ Len(nodes) = LongLen /\ termy = MaxTermY
    /\ hover = Len(nodes) - 1 /\ start = Len(nodes) - termy

\* C33: scroll margin of correct_hover: after cursor_down or cursor_up on a
\* non-empty list with a viewport of termy >= 1 rows, at least
\* min(cursor_off, hover, termy / 2) rows are drawn above the hovered row and
\* at least min(cursor_off, len - 1 - hover, (termy - 1) / 2) rows of the
\* viewport lie below it.
C33_ScrollMargin ==
    (status = "running" /\ nodes # <<>>) =>
        /\ hover - start >= Min(Min(cursor_off, hover), termy \div 2)
        /\ (start + termy - 1) - hover
              >= Min(Min(cursor_off, Len(nodes) - 1 - hover), (termy - 1) \div 2)

\* the cursor is in the middle of the long list on the tall terminal, with
\* cursor_off rows above it and the viewport scrolled
C33_Witness ==
    /\ Len(nodes) = LongLen /\ termy = TallTermY
    /\ start >= 1 /\ hover - start = cursor_off

-----------------------------------------------------------------------------
(* Claims about the selection screen, checked under Spec *)

\* C7: after every key action, whenever nodes is not empty, hover is the
\* index of a row: hover < len(nodes).
C7_HoverValid ==
    (status = "running" /\ nodes # <<>>) => hover < Len(nodes)

\* the row-targeted keys and commands of C8
RowTargeted ==
    \/ input_normal_end \/ input_normal_J \/ input_normal_K
    \/ input_normal_archive \/ input_normal_delete
    \/ input_normal_space \/ input_normal_edit
    \/ (input_cmd_enter /\ command \in {<<"t", " ", "x">>, <<"u", "t", " ", "x">>})

\* C8: on an empty list every row-targeted action is a no-op: the handler
\* does not panic and leaves nodes, hover, start and the backend unchanged.
C8_EmptyListNoOp ==
    [][(nodes = <<>> /\ RowTargeted)
          => (status' = "running" /\ UNCHANGED <<nodes, hover, start, db>>)]_vars

RECURSIVE Without(_, _)
\* the rows of ns whose id is not in ids, in their order
Without(ns, ids) ==
    IF ns = <<>> THEN <<>>
    ELSE IF Head(ns).id \in ids THEN Without(Tail(ns), ids)
    ELSE <<Head(ns)>> \o Without(Tail(ns), ids)

\* C9: d captures selection_or_hover() in delete_sel; no key of the Delete
\* mode changes the capture; y deletes from the backend exactly the captured
\* ids and removes from nodes exactly the rows with these ids, the other rows
\* staying in their order.
C9_DeletesCaptured ==
    [][/\ (input_normal_delete /\ state' = "Delete")
            => delete_sel' = selection_or_hover(nodes, hover)[1]
       /\ (state = "Delete" /\ Next) => delete_sel' = delete_sel
       /\ input_delete_yes
            => /\ Ids(db) \ Ids(db') = Set(delete_sel)
               /\ RowIds(nodes) \ RowIds(nodes') = Set(delete_sel)
               /\ nodes' = Without(nodes, Set(delete_sel))]_vars

C9_Witness ==
    /\ status = "running" /\ state = "Normal"
    /\ Len(delete_sel) = 2 /\ ~delete_hover
    /\ Set(delete_sel) \cap Ids(db) = {}
    /\ Set(delete_sel) \cap RowIds(nodes) = {}
    /\ nodes # <<>>

\* the handlers that call reload_nodes
Reloading ==
    \/ input_normal_edit \/ input_normal_create \/ input_normal_reload
    \/ input_normal_sort \/ input_normal_J \/ input_normal_K
    \/ input_search \/ input_cmd_enter

\* C10: after a reload the selected rows are the rows whose id was selected
\* before the reload and is in the new result; an id whose selection a
\* reload dropped is not selected when a later reload brings it back.
C10_SelectionAcrossReload ==
    /\ [][(nodes' # nodes /\ Reloading)
            => Set(Selected(nodes')) = Set(Selected(nodes)) \cap RowIds(nodes')]_vars
    /\ [](\A k \in 1..Len(nodes) : nodes[k].id \in dropped => ~nodes[k].selected)

C10_Witness ==
    /\ status = "running"
    /\ \E k \in 1..Len(nodes) : nodes[k].id \in dropped /\ ~nodes[k].selected
    /\ \E k \in 1..Len(nodes) : nodes[k].selected

\* C11: a press of `a` that finds its target (a selection, or a hovered row,
\* or no row at all) removes from nodes exactly the selection-or-hover rows
\* when the view is restricted to one archive state, and no row when the
\* view shows both; the rows that stay keep their fields and their order,
\* and the cursor is not moved (nodes is not reloaded from the backend).
C11_ArchiveInPlace ==
    [][(input_normal_archive /\ ~selection_or_hover_panics(nodes, hover))
        => /\ nodes' = IF IsSome(args.archived)
                       THEN Without(nodes, Set(selection_or_hover(nodes, hover)[1]))
                       ELSE nodes
           /\ hover' = hover /\ start' = start /\ args' = args]_vars

\* a note was archived from a view of the unarchived notes: it left the
\* rows, and other rows are still there
C11_Witness ==
    /\ status = "running" /\ args.archived = Some(FALSE) /\ nodes # <<>>
    /\ \E id \in Ids(db) : db.nodes[id].archived /\ id \notin RowIds(nodes)

\* C13: a backend error during a key action (here the list query that the
\* backend rejects after Ctrl-o, and the insert of `:tag` that it rejects)
\* leaves the screen running with the rows and the cursor it had.
BackendError ==
    \/ input_normal_sort /\ QueryFails(args')
    \/ /\ input_cmd_enter /\ command = <<"t", " ", "x">>
       /\ ~selection_or_hover_panics(nodes, hover)
       /\ add_tags_fails(selection_or_hover(nodes, hover)[1], <<<<"x">>>>)

C13_BackendErrorSurvived ==
    [][BackendError => (status' = "running" /\ UNCHANGED <<nodes, hover, start>>)]_vars

\* C16: in Delete mode `y` deletes the captured ids and returns to Normal,
\* and every other key deletes nothing and returns to Normal.
C16_DeleteAlwaysExits ==
    [][/\ input_delete_yes
            => (state' = "Normal" /\ Ids(db) \ Ids(db') = Set(delete_sel))
       /\ (input_delete_no \/ input_delete_other)
            => (state' = "Normal" /\ db' = db)]_vars

\* C17: leaving Search mode by Escape (Ctrl-c, Ctrl-d) or by Backspace on an
\* empty search line ends in Normal mode with no pattern filter in effect.
C17_SearchCancelClears ==
    [][(input_search_key("Esc") \/ (input_search_key("Backspace") /\ pattern = <<>>))
        => (state' = "Normal" /\ args'.pattern = None)]_vars

\* C18: a key of Search mode that changes the search line into a non-empty
\* text that does not parse leaves the filter, the rows and the cursor as
\* they are, keeps the screen running and stays in Search mode.
C18_InvalidPatternKeepsFilter ==
    [][(input_search /\ pattern' # pattern /\ pattern' # <<>>
            /\ ~parse_condition(pattern').ok)
        => /\ args' = args /\ nodes' = nodes /\ hover' = hover /\ start' = start
           /\ status' = "running" /\ state' = "Search"]_vars

\* the search line x( does not parse and the filter x is still in effect
C18_Witness ==
    /\ status = "running" /\ state = "Search" /\ pattern = <<"x", "(">>
    /\ args.pattern = Some(Match("x"))

\* C19: a key of Search mode that changes the search line into a text that
\* parses makes the parsed condition the filter, puts hover and start at 0
\* and replaces the rows by the result of the query under the new filter.
C19_ValidPatternReloads ==
    [][(input_search /\ pattern' # pattern)
        => \A p \in {parse_condition(pattern')} :
             p.ok => /\ args' = [args EXCEPT !.pattern = Some(p.value)]
                     /\ hover' = 0 /\ start' = 0 /\ status' = "running"
                     /\ nodes' \in reload_nodes(nodes, db, args')]_vars

\* the filter x was typed below the first row of a list: no note matches
\* it, the rows are gone and the cursor is at the top
C19_Witness ==
    /\ status = "running" /\ state = "Search" /\ pattern = <<"x">>
    /\ args.pattern = Some(Match("x")) /\ nodes = <<>> /\ Ids(db) # {}
    /\ hover = 0 /\ start = 0 /\ keys >= 3

\* C20: input() returns false exactly for `q` in Normal mode; in Search,
\* Command and Delete mode no key makes it return false, and the cancel
\* keys there return to Normal mode with the screen running.
C20_QuitOnlyFromNormal ==
    [][/\ (status # "quit" /\ status' = "quit") <=> input_normal_quit
       /\ input_normal_quit => state = "Normal"
       /\ (input_search_key("Esc") \/ input_cmd_cancel \/ input_delete_no)
            => (state' = "Normal" /\ status' = "running")]_vars

\* the session was quit after a search was committed
C20_Witness == status = "quit" /\ state = "Normal" /\ pattern # <<>>

\* the ids of the notes the archive setting of a lets through
ShownByArchive(a) ==
    {id \in Ids(db) : IsSome(a.archived) => db.nodes[id].archived = Unwrap(a.archived)}

\* C27: `:a` switches the view between archived-hidden and archived-shown
\* and leaves archived-only as it is; `:A` switches archived-only off and
\* any other view to archived-only; both reload the rows from the backend
\* and return to Normal mode.
C27_ArchiveCommands ==
    [][(state = "Command" /\ command \in {<<"a">>, <<"A">>} /\ input_cmd_enter
            /\ status' = "running")
        => /\ args'.archived =
                IF command = <<"a">>
                THEN (IF args.archived = Some(FALSE) THEN None
                      ELSE IF args.archived = None THEN Some(FALSE) ELSE Some(TRUE))
                ELSE (IF args.archived = Some(TRUE) THEN Some(FALSE) ELSE Some(TRUE))
           /\ [args' EXCEPT !.archived = args.archived] = args
           /\ db' = db /\ state' = "Normal"
           /\ args'.pattern = None => RowIds(nodes') = ShownByArchive(args')
           /\ \E rows \in iter_nodes(db, args') :
                [k \in DOMAIN nodes' |-> nodes'[k].id] = [k \in DOMAIN rows |-> rows[k].id]]_vars

\* `:a` made the view show both: an archived note is among the rows
C27_Witness ==
    /\ status = "running" /\ state = "Normal" /\ args.archived = None
    /\ \E k \in 1..Len(nodes) : db.nodes[nodes[k].id].archived

\* the command lines exec_cmd does not recognize: the empty line, an unknown
\* word, and t and ut without a tag
UnrecognizedLines == {<<>>, <<"x">>, <<"t">>, <<"u", "t">>}

ArmingG == input_normal_g /\ ~gpending

\* a key was handled and input() returned with the screen running
KeyHandled == keys' # keys /\ termy' = termy /\ status' = "running"

\* C31 as stated: a first g changes nothing but the flag
C31_FirstGChangesOnlyFlag ==
    [][ArmingG => (gpending' /\ UNCHANGED <<db, args, nodes, hover, start, termy,
                                           status, modeRest, action_count, dropped>>)]_vars

\* C31: one-shot gg: a g jumps to the first row (hover = start = 0) exactly
\* when the flag is pending, and the flag is pending exactly after a g that
\* armed it: a first g changes the flag and resets the numeric prefix and
\* nothing else, and every other key, the second g included, clears the flag.
C31_OneShotGG ==
    /\ [][/\ (input_normal_g /\ gpending) => (hover' = 0 /\ start' = 0 /\ ~gpending')
          /\ ArmingG => /\ gpending' /\ action_count' = 0
                        /\ UNCHANGED <<db, args, nodes, hover, start, termy, status,
                                       modeRest, dropped>>
          /\ (KeyHandled /\ ~ArmingG) => ~gpending']_vars
    /\ [](gpending => state = "Normal")

\* a g is pending below the first row and the next key can follow
C31_Witness ==
    /\ status = "running" /\ gpending /\ hover >= 1 /\ keys < MaxKeys

\* the ids J and K act on: the selected rows, or the hovered row without any
PriorityTarget ==
    IF Selected(nodes) # <<>> THEN Set(Selected(nodes)) ELSE {nodes[hover + 1].id}

\* the backend after the step differs by offset in the priority of the targets
PriorityMoved(offset) ==
    db' = [db EXCEPT !.nodes = [id \in Ids(db) |->
             [db.nodes[id] EXCEPT !.priority =
                 IF id \in PriorityTarget THEN @ + offset ELSE @]]]

\* C32: J and K on a hovered row that return change the priority of every id
\* of the selection-or-hover set by -1 (J) or +1 (K) and no other priority,
\* and the cursor is on the note it was on when that note is still listed.
C32_PriorityKeepsCursor ==
    [][(hover < Len(nodes) /\ status' = "running")
        => /\ input_normal_J => PriorityMoved(-1)
           /\ input_normal_K => PriorityMoved(1)
           /\ (input_normal_J \/ input_normal_K)
                => (nodes[hover + 1].id \in RowIds(nodes')
                      => (hover' < Len(nodes')
                          /\ nodes'[hover' + 1].id = nodes[hover + 1].id))]_vars

\* Ctrl-o twice, then J on the first row: the note went down the list
\* sorted by priority and the cursor went with it
C32_Witness ==
    /\ status = "running" /\ keys = 3 /\ args.sort = "priority"
    /\ hover >= 1 /\ hover = Len(nodes) - 1
    /\ nodes[hover + 1].priority = 0 - 1

\* the indices of the selected rows
SelectedRows == {k \in 1..Len(nodes) : nodes[k].selected}

\* C34: selection_or_hover returns exactly the ids of the selected rows with
\* the flag false when a row is selected, the id of the hovered row alone
\* with the flag true when none is selected and the list has rows, and
\* nothing with the flag false on the empty list; `d` stores what it returns.
C34_SelectionOrHover ==
    /\ [](status = "running" =>
            /\ SelectedRows # {} =>
                 /\ Set(selection_or_hover(nodes, hover)[1])
                      = {nodes[k].id : k \in SelectedRows}
                 /\ Len(selection_or_hover(nodes, hover)[1]) = Cardinality(SelectedRows)
                 /\ ~selection_or_hover(nodes, hover)[2]
            /\ (SelectedRows = {} /\ hover < Len(nodes)) =>
                 selection_or_hover(nodes, hover) = <<<<nodes[hover + 1].id>>, TRUE>>
            /\ nodes = <<>> => selection_or_hover(nodes, hover) = <<<<>>, FALSE>>)
    /\ [][(input_normal_delete /\ status' = "running" /\ nodes # <<>>)
            => /\ state' = "Delete"
               /\ delete_hover' = (SelectedRows = {})
               /\ Set(delete_sel') = IF SelectedRows = {} THEN {nodes[hover + 1].id}
                                     ELSE {nodes[k].id : k \in SelectedRows}]_vars

\* d found two selected rows
C34_Witness ==
    /\ status = "running" /\ state = "Delete"
    /\ Len(delete_sel) = 2 /\ ~delete_hover /\ Cardinality(SelectedRows) = 2

\* C38: render never reads past the list: in every state that keys and
\* resizes reach, start <= len(nodes) when render_nf runs, also after rows
\* were removed in place by a confirmed delete or by an archive.
C38_RenderInsideList == start <= Len(nodes)

-----------------------------------------------------------------------------
(* Claims about the session, checked under SpecSession *)

\* the process has ended and the terminal is as select() found it
Restored == ~tty.raw /\ ~tty.alternate /\ tty.cursor = "shown"

\* C12: when the process has ended after `q`, after the end of the input or
\* after a panic inside input(), the cleanup sequence has been written and
\* the terminal is out of raw mode, on the main screen, with its cursor.
C12_TerminalRestored ==
    /\ (process # "running" /\ (status # "running" \/ main = "returned")) => Restored
    /\ (process # "running" /\ status # "running") => tty.cleaned

\* C14: input() and resized() never run at once, and neither runs while
\* the main thread writes the cleanup sequence: the thread inside one of
\* them is the holder of the mutex.
C14_MutualExclusion ==
    /\ ~(main \in {"input", "editor", "cleanup", "cleanup_unwind"} /\ sizet = "resized")
    /\ main \in {"input", "editor", "cleanup", "cleanup_unwind"} <=> mutex.holder = "main"
    /\ sizet = "resized" <=> mutex.holder = "sizet"

\* input() is running while the resize thread waits for the mutex
C14_Witness == main = "input" /\ sizet = "lock" /\ mutex.holder = "main"

\* C15: on the way from the key loop to the return of select (quit or end
\* of input), the cleanup sequence is written only after the resize thread
\* was told to stop and has finished, and the resize thread renders
\* nothing after it.
C15_JoinBeforeCleanup ==
    (main \in {"cleanup", "drop", "returned"} /\ (tty.cleaned \/ main = "cleanup"))
        => (~run_size /\ sizet = "finished" /\ ~tty.drawn_after_cleanup)

\* select returned after `q`; the resize thread had rendered a new size
C15_Witness ==
    /\ main = "returned" /\ status = "quit" /\ tty.cleaned /\ termy = 2
    /\ winsize = 2 /\ sizet = "finished"

\* C37: no redraw while the editor owns the terminal: from the switch to
\* the main screen before the external editor (keys e, Enter and c) to the
\* switch back, the resize thread is never inside resized(), so it renders
\* nothing and leaves the height of the screen alone, even when the
\* terminal was resized in between.
C37_NoRedrawWhileEditing ==
    /\ [](main = "editor" => (sizet # "resized" /\ mutex.holder = "main"))
    /\ [][(main = "editor" /\ main' = "editor") => (termy' = termy /\ tty' = tty)]_vars

\* the editor runs, the terminal was resized, and the resize thread has
\* seen the new size and waits for the lock
C37_Witness ==
    /\ main = "editor" /\ sizet = "lock" /\ winsize # termy /\ termsize = winsize

-----------------------------------------------------------------------------
(* Claims about the scheduled session, checked under SpecSessionFair *)

\* C39: shutdown terminates: once `q` was handled (input returned false and
\* the key loop dropped its guard), the stop flag is stored, the resize
\* thread leaves its loop, the join returns and select() returns.
C39_ShutdownTerminates == (status = "quit") ~> (main = "returned")

\* `q` was handled and the main thread waits in the join while the resize
\* thread, which has seen a new size, is about to take the lock
C39_Witness ==
    /\ status = "quit" /\ main = "join" /\ ~run_size
    /\ sizet = "lock" /\ mutex.holder = "none"

\* C40: a resize is eventually applied: when the terminal size stays at w
\* from some point on and no further key arrives (the main thread stays in
\* the key loop), the height stored in the browser eventually is w, also
\* when the size changed between the measurement of SelectScreen::new and
\* the first measurement of the resize thread.
C40_ResizeApplied ==
    \A w \in TermSizes :
        <>[](winsize = w /\ main = "keys") => <>[](termy = w)

-----------------------------------------------------------------------------
(* Claims about the filtered listing, checked under SpecFilter *)

Tag(text) == CondNode("Tag", text, <<>>)
ContentMatch(text) == CondNode("ContentMatch", text, <<>>)

\* C21: negated tag filter: iter_nodes with the pattern Not(Tag(t)) visits
\* exactly the notes none of whose tags equals t, the notes without any tag
\* included and every note with the tag t excluded, whatever other tags it has.
C21_NegatedTag ==
    (visited.done /\ args.pattern = Some(CondNode("Not", <<>>, <<Tag(<<"t">>)>>)))
        => Range(VisitedIds) = {id \in Ids(db) : <<"t">> \notin TagsOf(db, id)}

\* C22: conjunction of tags: iter_nodes with the pattern And(Tag(t), Tag(u))
\* for distinct t and u visits exactly the notes that have both tags.
C22_BothTags ==
    (visited.done
     /\ args.pattern = Some(CondNode("And", <<>>, <<Tag(<<"t">>), Tag(<<"u">>)>>)))
        => Range(VisitedIds) = {id \in Ids(db) : FilterTags \subseteq TagsOf(db, id)}

RECURSIVE Contains(_, _)
\* text contains part as a run of consecutive characters
Contains(text, part) ==
    \/ (Len(part) <= Len(text) /\ SubSeq(text, 1, Len(part)) = part)
    \/ (text # <<>> /\ Contains(Tail(text), part))

\* C23: pattern text is data: iter_nodes with the pattern ContentMatch(t)
\* visits exactly the notes whose content contains t as a literal substring,
\* also when t contains %, _ or '.
C23_LiteralContent ==
    (visited.done /\ IsSome(args.pattern) /\ Unwrap(args.pattern).type = "ContentMatch")
        => Range(VisitedIds) =
             {id \in Ids(db) : Contains(db.nodes[id].content, Unwrap(args.pattern).text)}

\* C24: a pattern argument that fails to parse is never turned into "no
\* filter": when the command line has a pattern and extract_list_args
\* returns list arguments without a pattern, the pattern text does not parse.
C24_ErrorIsNotNoFilter ==
    ~(/\ IsSome(input)
      /\ args.pattern = None
      /\ ~parse_condition(Unwrap(input)).ok)

\* C36: tag lists of listed notes are complete: every note iter_nodes visits
\* is delivered with the full set of tags it has in the backend, also under
\* a pattern with a Tag condition.
C36_TagsComplete ==
    visited.done =>
        \A k \in 1..Len(visited.rows) :
            visited.rows[k].tags = TagsOf(db, visited.rows[k].id)

-----------------------------------------------------------------------------
(* Claims about the numeric prefix, checked under SpecPrefix *)

\* the rows j and k move by: the count typed, or 1 without one
PrefixCount == IF action_count = 0 THEN 1 ELSE action_count

\* C29: consecutive digit keys accumulate a decimal count (up to the largest
\* machine integer), every other key of Normal mode leaves the count at 0,
\* and j / k move hover by the count, or by 1 when no digit or only zeros
\* were typed, as far as the list goes.
C29_NumericPrefix ==
    [][/\ input_normal_digits
            => /\ \E digit \in 0..9 :
                    action_count' = Min(action_count * 10 + digit, usize_MAX)
               /\ UNCHANGED <<nodes, hover, start>>
       /\ (~input_normal_digits /\ status' = "running") => action_count' = 0
       /\ (input_normal_down /\ nodes # <<>> /\ hover + PrefixCount <= usize_MAX)
            => hover' = Min(hover + PrefixCount, Len(nodes) - 1)
       /\ (input_normal_up /\ nodes # <<>>)
            => hover' = Max(hover - PrefixCount, 0)]_vars

\* 1, 2 and j on the long list: the cursor is twelve rows down
C29_Witness ==
    /\ status = "running" /\ Len(nodes) = LongLen
    /\ keys = 3 /\ hover = 12 /\ action_count = 0

\* C30: clamping without overflow: j on a list with rows and hover >= 1 does
\* not panic and leaves hover at the last row or hover + n, whichever is
\* less, for every count n, the count saturated at the largest machine
\* integer included.
C30_ClampWithoutOverflow ==
    [][(input_normal_down /\ nodes # <<>> /\ hover >= 1)
        => /\ status' = "running"
           /\ hover' = Min(hover + PrefixCount, Len(nodes) - 1)]_vars

=============================================================================
